---------------------------- MODULE Spec2Model ----------------------------
(***************************************************************************)
(* State-machine model of the hftcore trading host.                        *)
(*                                                                         *)
(*   TradeGate / OrderGateway : src/src/exchange_trade.rs,                 *)
(*                              src/src/strategies/order.rs                *)
(*   PluginSupervisor         : src/src/strategies/manager.rs              *)
(*                                                                         *)
(* The host runs on a multi-threaded task runtime (src/src/main.rs:85), so *)
(* every access to a concurrent map, set, atomic or channel is one atomic  *)
(* step and the tasks interleave between such steps.                       *)
(***************************************************************************)
EXTENDS Integers, Sequences, FiniteSets, TLC

(***************************************************************************)
(* Bounds of the TradeGate model.                                          *)
(***************************************************************************)
\* number of request ids next_id may hand out
MaxId == 2
\* number of successful connects of run_socket
MaxConn == 2
\* number of text frames the venue sends that carry one given request id
MaxResp == 2
\* number of tasks calling send_command concurrently
NumCallers == 2
\* capacity of the outbound channel in the model (8192 in the source)
OutCap == 2

Ids == 1..MaxId
Conns == 1..MaxConn
Callers == 1..NumCallers

\* id_counter: AtomicU64::new(0); next_id returns counter + 1, so no request
\* carries this value and it marks "no id"
InitialCounter == 0
NoId == InitialCounter

VARIABLES
    \* ---- ExchangeTrade fields (exchange_trade.rs:68-85) ----
    id_counter,      \* AtomicU64
    pending,         \* DashMap<String, Callback>: the ids that have an entry
    inflight_ids,    \* DashSet<String>
    is_connected,    \* AtomicBool
    out_q,           \* the mpsc channel out_tx / out_rx (ids of the Outbound items)
    \* ---- locals of run_socket (the writer task) ----
    backlog,         \* VecDeque<Outbound>
    wpc,             \* position of the writer task
    wcur,            \* the Outbound `ob` whose write has returned Ok
    sweep_ids,       \* `ids` of fail_inflight_on_disconnect still to visit
    conn,            \* number of sockets opened so far; the current one is conn
    \* ---- reader tasks, one per socket ----
    reader,          \* reader[c] : "none" | "live" | "done"
    \* ---- callers of send_command ----
    cpc,             \* position of each caller
    cid,             \* id returned to it by next_id
    \* ---- observations ----
    calls,           \* calls[id]  : payloads the callback of id was invoked with
    wire,            \* wire[id]   : sockets on which a write of id returned Ok
    resp,            \* resp[id]   : text frames with that id the venue has sent
    backlogged,      \* ids that were pushed to the backlog at some time
    down_submit,     \* ids put on the outbound channel while is_connected was false
    snap_pending,    \* ids that were inflight with a pending entry at the last disconnect
    stamps,          \* stamps[id] : local time and "timestamp" of the payload built for id
    unbuilt          \* ids for which build_message_for_cmd returned None

tradeVars == <<id_counter, pending, inflight_ids, is_connected, out_q, backlog,
               wpc, wcur, sweep_ids, conn, reader, cpc, cid, calls,
               wire, resp, backlogged, down_submit, snap_pending, stamps,
               unbuilt>>


(***************************************************************************)
(* PluginSupervisor: StrategyRunner of src/src/strategies/manager.rs       *)
(***************************************************************************)
\* number of RunningInstance values start may create
MaxInc == 2
\* number of tasks calling start concurrently
NumStarters == 2
\* number of tasks calling stop or stop_all concurrently
NumStoppers == 2
\* number of 100 ms polls of stop in the model (100 in the source)
StopPolls == 1
\* capacity of the sync queue in the model (8192 in the source)
SyncCap == 1

StrategyIds == {"S", "T"}
Symbols == {"sol", "SOL"}

\* symbol.to_uppercase()
Upper(y) == IF y = "sol" THEN "SOL" ELSE y

\* format!("{}:{}", strategy_id, symbol.to_uppercase())
InstanceId(s, y) == <<s, Upper(y)>>

InstanceIds == {InstanceId(s, y) : s \in StrategyIds, y \in Symbols}
Incs == 1..MaxInc
Starters == 1..NumStarters
Stoppers == 1..NumStoppers
NoInst == 0
NoKey == <<"", "">>

\* the calls made on the supervisor in one run: concurrent starts of one
\* strategy, concurrent stops of one strategy, or stop_all over two strategies
Workloads == {"start", "stop", "stop_all"}
StartersOf(w) == IF w = "start" THEN Starters ELSE {1}
StoppersOf(w) == IF w = "stop" THEN Stoppers ELSE {1}
StrategiesOf(w) == IF w = "stop_all" THEN StrategyIds ELSE {"S"}

VARIABLES
    workload,        \* the workload of this run
    \* ---- StrategyRunner.instances (DashMap<String, RunningInstance>) ----
    instances,       \* instances[id] : the RunningInstance registered, or NoInst
    \* ---- the RunningInstance values created so far, 1..ninc ----
    ninc,
    inst_id,         \* info.instance_id
    worker,          \* task        : "none" | "running" | "finished"
    bridge,          \* bridge_task : "none" | "check" | "recv" | "stopped" | "aborted"
    stop_flag,       \* stop_flag   : AtomicBool
    lib,             \* owners of the Arc<Library> : subset of LibOwners
    sync_q,          \* number of events in the bounded sync queue
    \* ---- callers of start ----
    spc, sarg, sk, sres,
    \* ---- callers of stop and stop_all ----
    tpc,             \* "idle" | "poll" | "all"
    targ,            \* instance_id of the stop in progress
    tk,              \* the RunningInstance stop found with instances.get
    tpoll,           \* i of the poll loop
    tall,            \* TRUE inside stop_all
    tsid,            \* strategy_id of stop_all
    to_stop,         \* to_stop of stop_all
    ttodo,           \* the part of to_stop not yet iterated
    \* ---- cleanup_loop ----
    kpc, kfinished, kjoin,
    \* ---- observation ----
    started,         \* ids whose start returned Ok and no stop completed since
    reaped,          \* ids among them that cleanup_loop removed
    stop_done        \* RunningInstances whose stop has returned Ok

runnerVars == <<workload, instances, ninc, inst_id, worker, bridge, stop_flag, lib, sync_q,
                spc, sarg, sk, sres, tpc, targ, tk, tpoll, tall, tsid,
                to_stop, ttodo, kpc, kfinished, kjoin, started, reaped, stop_done>>

(***************************************************************************)
(* OrderApi: the callbacks of place_order and cancel_order in              *)
(* src/src/strategies/order.rs                                             *)
(***************************************************************************)
VARIABLES
    payload,         \* the response payload the callback was called with
    place_result,    \* the OrderResult handed to the place callback
    cancel_id,       \* order_id argument of cancel_order
    cancel_result    \* the OrderResult handed to the cancel callback

orderVars == <<payload, place_result, cancel_id, cancel_result>>

(***************************************************************************)
(* One bridge and its sync queue in detail: StrategyRunner::bridge_loop    *)
(* and the queue set up by StrategyRunner::start, src/src/strategies/      *)
(* manager.rs                                                              *)
(***************************************************************************)
\* number of instances with a bridge
NumBridges == 2
\* number of market events published on the bus in one run
MaxBusEvents == 5
\* number of user-data events published in one run
MaxUserEvents == 1
\* capacity of the broadcast bus per receiver (10000 in main.rs)
BusCap == 2
\* a warning is logged every WarnEvery drops (1000 in the code)
WarnEvery == 2

Bridges == 1..NumBridges

\* what a run exercises: one instance through its whole life (user feed, stop,
\* return of the plugin, end of the bus), or NumBridges instances forwarding
\* side by side
Loads == {"single", "pair"}

BridgesOf(load) == IF load = "pair" THEN Bridges ELSE {1}

UserFeedsOf(load) == IF load = "pair" THEN {FALSE} ELSE BOOLEAN

VARIABLES
    br_load,         \* the load of this run, fixed from the start
    br_pc,           \* bridge task: "none" | "check" | "recv" | "stopped"
    br_flag,         \* stop_flag of the instance
    br_worker,       \* worker: "none" | "running" | "finished"; it owns sync_rx
    br_has_user,     \* has_user_data: start found a user feed for params.api_key
    br_open,         \* the bus still has its sender
    br_sent,         \* number of market events published so far
    br_usent,        \* number of user-data events published so far
    br_from,         \* number of market events published before event_rx was subscribed
    br_sub,          \* event_rx: events the bus holds for the bridge, oldest first
    br_lag,          \* event_rx: events overwritten before the bridge received them
    br_q,            \* the sync queue, oldest first
    br_user_rx,      \* user_data_rx: user-data events held for the plugin, oldest first
    br_taken,        \* number of events the bridge received from event_rx
    br_enq,          \* events the bridge enqueued, in order
    br_dropped,      \* dropped
    br_warned        \* values of dropped at which the warning was logged

bridgeVars == <<br_load, br_pc, br_flag, br_worker, br_has_user, br_open, br_sent, br_usent, br_from,
                br_sub, br_lag, br_q, br_user_rx, br_taken, br_enq, br_dropped, br_warned>>

(***************************************************************************)
(* UserFeed: UserDataManager of src/src/user_data/manager.rs, for one      *)
(* credential hash                                                         *)
(***************************************************************************)
\* number of streams connect may create in one run
MaxStreams == 2
\* number of concurrent callers of connect
NumConnectors == 2
\* number of connect attempts of one socket loop
MaxAttempts == 8
\* number of session tokens the venue issues in one run
MaxTokens == 4
\* retry_delay starts at 1 s and is capped at 60 s
InitialDelay == 1
MaxDelay == 60

Streams == 1..MaxStreams
Connectors == 1..NumConnectors
NoStream == 0
NoToken == 0

\* what a run exercises: one stream reconnecting again and again, or the
\* callers of connect and disconnect racing, with few attempts per socket loop
UserLoads == {"backoff", "race"}

ConnectorsOf(load) == IF load = "race" THEN Connectors ELSE {1}

StreamsOf(load) == IF load = "race" THEN MaxStreams ELSE 1

AttemptsOf(load) == IF load = "race" THEN 1 ELSE MaxAttempts

VARIABLES
    ud_load,         \* the load of this run, fixed from the start
    ud_streams,      \* streams: the StreamHandle stored under the key hash, or NoStream
    ud_nstreams,     \* number of streams created so far
    ud_tok,          \* number of session tokens (listenKey) issued so far
    ud_cpc,          \* connect call: "idle" | "getkey" | "spawn"
    ud_ckey,         \* connect call: listen_key
    ud_csub,         \* connect call: stream of the receiver it last returned
    ud_shutdown,     \* StreamHandle.shutdown
    ud_ws,           \* ws_task: "none" | "check" | "connect" | "read" | "after" | "sleep"
                     \*          | "getkey" | "ended" | "aborted"
    ud_refresh,      \* refresh_task: "none" | "sleep" | "keepalive" | "ended" | "aborted"
    ud_pong,         \* pong_task of the current socket: "none" | "sleep" | "send" | "ended"
                     \*          | "aborted"
    ud_retry,        \* retry_delay
    ud_key,          \* listen_key of ws_loop
    ud_att,          \* number of connect attempts of the socket loop
    ud_last,         \* listen_key of the connection that dropped last, or NoToken
    ud_delays        \* the delays slept since the last successful connect

userVars == <<ud_load, ud_streams, ud_nstreams, ud_tok, ud_cpc, ud_ckey, ud_csub, ud_shutdown,
              ud_ws, ud_refresh, ud_pong, ud_retry, ud_key, ud_att, ud_last, ud_delays>>

(***************************************************************************)
(* UserFeed parser: parse_account of src/src/user_data/parser.rs           *)
(***************************************************************************)
\* number of balance items in an ACCOUNT_UPDATE frame
MaxBalances == 12
\* CAccountUpdate.balances has 10 slots, CBalanceItem.asset has 8 bytes
BalanceSlots == 10
AssetBytes == 8

VARIABLES
    pa_frame,        \* the frame last given to parse_account
    pa_event         \* what parse_account returned for it

parserVars == <<pa_frame, pa_event>>


(***************************************************************************)
(* The clock offset of the trading socket (exchange_trade.rs:84, 488-554)  *)
(* and the start of the host (main.rs:99-120).                             *)
(***************************************************************************)
\* number of milliseconds the local wall clock advances in the model
MaxNow == 1
\* time_offset_ms: AtomicI64::new(0)
InitialOffset == 0
\* trade_manager.set_time_offset(-1000)
FallbackOffset == -1000
\* the differences between the venue's clock and the local one that are drawn
Skews == {-5000, 700}
\* "no payload was built for this id yet"
NoStamp == [local |-> -1, ts |-> -1]
\* the hosts that are modelled: one that has finished its start with an
\* offset of 0, and one that is starting
ClockLoads == {"started", "boot"}

VARIABLES
    ck_load,         \* which of the ClockLoads runs
    time_offset_ms,  \* AtomicI64 of ExchangeTrade
    now,             \* Utc::now().timestamp_millis() of the local wall clock
    ck_pc,           \* position of main: "start" | "http" | "body" | "ok" | "err" | "ready"
    ck_t0,           \* t0 of sync_time
    ck_t1,           \* t1 of sync_time
    ck_result        \* "none" | "ok" | "err": what sync_time returned to main

clockVars == <<ck_load, time_offset_ms, now, ck_pc, ck_t0, ck_t1, ck_result>>

\* the tasks that call send_command under each load
CallersOf == IF ck_load = "started" THEN Callers ELSE {1}
(***************************************************************************)
(* MarketFeed: ExchangeData of src/src/exchange_data.rs                    *)
(***************************************************************************)
\* number of sockets run_socket may open
MaxFeedConn == 2
\* number of text frames received in one run
MaxFrames == 3
\* number of commands submitted in one run
MaxCmds == 2
\* number of read timeouts in one run
MaxTimeouts == 2
\* capacity of the cmd channel (mpsc::channel(32) in the code)
CmdCap == 2

FeedConns == 1..MaxFeedConn

VARIABLES
    fd_pc,           \* run_socket: "connect" | "serve" | "join" | "sleep"
    fd_connected,    \* is_connected
    fd_conn,         \* number of sockets opened so far; the current one
    fd_reader,       \* reader task of the current socket: "none" | "running" | "done"
    fd_cmds,         \* cmd channel (mpsc), oldest command first
    fd_nsub,         \* number of commands submitted by subscribe_* / unsubscribe_*
    fd_idle,         \* consecutive read timeouts of the current reader, no frame in between
    fd_pings,        \* number of read timeouts so far
    fd_wire,         \* commands written, with the socket they were written to
    fd_frames,       \* text frames received, in order of receipt
    fd_bus           \* events sent on event_tx, in order

feedVars == <<fd_pc, fd_connected, fd_conn, fd_reader, fd_cmds, fd_nsub, fd_idle,
              fd_pings, fd_wire, fd_frames, fd_bus>>

vars == <<tradeVars, runnerVars, orderVars, feedVars, bridgeVars, userVars,
         parserVars, clockVars>>

Range(s) == {s[i] : i \in DOMAIN s}

(***************************************************************************)
(* Payloads (serde_json::Value) as far as the code looks into them:        *)
(* the "id" member, the "error" member with its "code", and                *)
(* "result"."orderId".                                                     *)
(***************************************************************************)
\* json!({"id": id, "error": {"code": "Disconnected", ...}})
DisconnectedPayload(id) ==
    [id |-> id, etag |-> "str", ecode |-> 0, estr |-> "Disconnected",
     hasOid |-> FALSE, oid |-> 0]

\* a frame {id, result: {orderId: 42}}
VenueResult(id) ==
    [id |-> id, etag |-> "none", ecode |-> 0, estr |-> "", hasOid |-> TRUE, oid |-> 42]

\* a frame {id, error: {code: -2011}}
VenueError(id) ==
    [id |-> id, etag |-> "int", ecode |-> -2011, estr |-> "", hasOid |-> FALSE, oid |-> 0]

\* the text frames the venue answers request id with; handle_text looks at
\* the id only, so one success and one error frame are drawn
VenueFrames(id) == {VenueResult(id), VenueError(id)}

\* extract_id: Some(id) for a string or number "id" member
extract_id(v) == v.id

\* error["code"].as_i64().unwrap_or(-1) as i32; the codes drawn are 32 bit
\* integers, on which `as i32` changes nothing
ErrorCode(v) == IF v.etag = "int" THEN v.ecode ELSE -1

\* a callback that looks for result.orderId before it looks for error
handle_resp_result_first(v) ==
    IF v.hasOid
    THEN [success |-> TRUE, order_id |-> v.oid, error_code |-> 0]
    ELSE IF v.etag # "none"
    THEN [success |-> FALSE, order_id |-> -1, error_code |-> ErrorCode(v)]
    ELSE [success |-> FALSE, order_id |-> -1, error_code |-> -9998]

\* handle_resp of place_order: the OrderResult handed to the plugin callback
handle_resp(v) ==
    IF v.etag # "none"
    THEN [success |-> FALSE, order_id |-> -1, error_code |-> ErrorCode(v)]
    ELSE IF v.hasOid
    THEN [success |-> TRUE, order_id |-> v.oid, error_code |-> 0]
    ELSE [success |-> FALSE, order_id |-> -1, error_code |-> -9998]

\* the closure of cancel_order: the OrderResult handed to the plugin callback
cancel_resp(v, order_id) ==
    IF v.etag # "none"
    THEN [success |-> FALSE, order_id |-> -1, error_code |-> ErrorCode(v)]
    ELSE [success |-> TRUE, order_id |-> order_id, error_code |-> 0]

(***************************************************************************)
(* send_command                                                            *)
(***************************************************************************)
\* next_id: fetch_add(1) + 1
next_id == id_counter + 1

\* a timestamp that leaves the offset out
adjusted_time_local(local_time_ms, offset) == local_time_ms

\* let adjusted_time_ms = local_time_ms + offset
adjusted_time(local_time_ms, offset) == local_time_ms + offset

\* a send_command that goes on when the payload could not be built
AfterBuildGoOn(built) == "register"

\* let Some(payload_str) = self.build_message_for_cmd(..) else { return; }
AfterBuild(built) == IF built THEN "register" ELSE "idle"

\* let id = self.next_id(); build_message_for_cmd(&cmd, &id): ts is computed
\* from the wall clock and the offset; None when serde_json::Number::from_f64
\* rejects a non-finite price or quantity, and send_command returns.  The
\* callers get the gateway from init_trading and from the application
\* state, both set up after main has dealt with sync_time.
send_command_build(c) ==
    /\ ck_pc = "ready"
    /\ c \in CallersOf
    /\ cpc[c] = "idle"
    /\ id_counter < MaxId
    /\ id_counter' = next_id
    /\ cid' = [cid EXCEPT ![c] = next_id]
    /\ stamps' = [stamps EXCEPT ![next_id] =
                      [local |-> now, ts |-> adjusted_time(now, time_offset_ms)]]
    /\ \E finite \in BOOLEAN :
          /\ cpc' = [cpc EXCEPT ![c] = AfterBuild(finite)]
          /\ unbuilt' = IF finite THEN unbuilt ELSE unbuilt \cup {next_id}
    /\ UNCHANGED <<pending, inflight_ids, is_connected, out_q, backlog, wpc, wcur,
                   sweep_ids, conn, reader, calls, wire, resp, backlogged, down_submit,
                   snap_pending, runnerVars, orderVars, feedVars, bridgeVars, userVars,
                   parserVars, clockVars>>

\* a caller that puts the payload on the channel without registering
send_command_register_skip(c) ==
    /\ cpc[c] = "register"
    /\ cpc' = [cpc EXCEPT ![c] = "enqueue"]
    /\ UNCHANGED <<id_counter, pending, inflight_ids, is_connected, out_q, backlog,
                   wpc, wcur, sweep_ids, conn, reader, cid, calls, wire, resp,
                   backlogged, down_submit, snap_pending, stamps, unbuilt, runnerVars,
                   orderVars, feedVars, bridgeVars, userVars, parserVars, clockVars>>

\* self.pending.insert(id.clone(), Arc::new(callback))
send_command_register(c) ==
    /\ cpc[c] = "register"
    /\ pending' = pending \cup {cid[c]}
    /\ cpc' = [cpc EXCEPT ![c] = "enqueue"]
    /\ UNCHANGED <<id_counter, inflight_ids, is_connected, out_q, backlog, wpc, wcur,
                   sweep_ids, conn, reader, cid, calls, wire, resp, backlogged,
                   down_submit, snap_pending, stamps, unbuilt, runnerVars, orderVars,
                   feedVars, bridgeVars, userVars, parserVars, clockVars>>

\* self.out_tx.send(Outbound { id, payload }).await: waits while the channel is full
send_command_enqueue(c) ==
    /\ cpc[c] = "enqueue"
    /\ Len(out_q) < OutCap
    /\ out_q' = Append(out_q, cid[c])
    /\ down_submit' = IF is_connected THEN down_submit ELSE down_submit \cup {cid[c]}
    /\ cpc' = [cpc EXCEPT ![c] = "idle"]
    /\ UNCHANGED <<id_counter, pending, inflight_ids, is_connected, backlog, wpc, wcur,
                   sweep_ids, conn, reader, cid, calls, wire, resp, backlogged,
                   snap_pending, stamps, unbuilt, runnerVars, orderVars, feedVars,
                   bridgeVars, userVars, parserVars, clockVars>>

(***************************************************************************)
(* run_socket: the writer task                                             *)
(***************************************************************************)
\* connect_async returned Ok: store(true), split, spawn the reader
ConnectOk ==
    /\ wpc = "connect"
    /\ conn < MaxConn
    /\ conn' = conn + 1
    /\ is_connected' = TRUE
    /\ reader' = [reader EXCEPT ![conn + 1] = "live"]
    /\ wpc' = "flush"
    /\ UNCHANGED <<id_counter, pending, inflight_ids, out_q, backlog, wcur, sweep_ids,
                   cpc, cid, calls, wire, resp, backlogged, down_submit, snap_pending,
                   stamps, unbuilt, runnerVars, orderVars, feedVars, bridgeVars,
                   userVars, parserVars, clockVars>>

\* connect_async returned Err: store(false), sleep 2 s, try again
ConnectErr ==
    /\ wpc = "connect"
    /\ is_connected' = FALSE
    /\ wpc' = "connect"
    /\ UNCHANGED <<id_counter, pending, inflight_ids, out_q, backlog, wcur, sweep_ids,
                   conn, reader, cpc, cid, calls, wire, resp, backlogged, down_submit,
                   snap_pending, stamps, unbuilt, runnerVars, orderVars, feedVars,
                   bridgeVars, userVars, parserVars, clockVars>>

\* a pop_front that leaves the front item in the deque
PopFrontKeep(b) == b

\* backlog.pop_front()
PopFront(b) == Tail(b)

\* a push_front that loses the item
PushFrontLose(b, ob) == b

\* backlog.push_front(ob)
PushFront(b, ob) == <<ob>> \o b

\* while let Some(ob) = backlog.pop_front(): write.send returned Ok
FlushWriteOk ==
    /\ wpc = "flush"
    /\ backlog # <<>>
    /\ wcur' = Head(backlog)
    /\ backlog' = PopFront(backlog)
    /\ wire' = [wire EXCEPT ![Head(backlog)] = Append(@, conn)]
    /\ wpc' = "flush_ins"
    /\ UNCHANGED <<id_counter, pending, inflight_ids, is_connected, out_q, sweep_ids,
                   conn, reader, cpc, cid, calls, resp, backlogged, down_submit,
                   snap_pending, stamps, unbuilt, runnerVars, orderVars, feedVars,
                   bridgeVars, userVars, parserVars, clockVars>>

\* Ok(_) => self.inflight_ids.insert(ob.id.clone())   (backlog flush)
FlushInsert ==
    /\ wpc = "flush_ins"
    /\ inflight_ids' = inflight_ids \cup {wcur}
    /\ wcur' = NoId
    /\ wpc' = "flush"
    /\ UNCHANGED <<id_counter, pending, is_connected, out_q, backlog, sweep_ids, conn,
                   reader, cpc, cid, calls, wire, resp, backlogged, down_submit,
                   snap_pending, stamps, unbuilt, runnerVars, orderVars, feedVars,
                   bridgeVars, userVars, parserVars, clockVars>>

\* a failed flush write after which the writer enters the select loop
FlushWriteErrGoOn ==
    /\ wpc = "flush"
    /\ backlog # <<>>
    /\ backlog' = PushFront(PopFront(backlog), Head(backlog))
    /\ backlogged' = backlogged \cup {Head(backlog)}
    /\ wpc' = "normal"
    /\ UNCHANGED <<id_counter, pending, inflight_ids, is_connected, out_q, wcur,
                   sweep_ids, conn, reader, cpc, cid, calls, wire, resp, down_submit,
                   snap_pending, stamps, unbuilt, runnerVars, orderVars, feedVars,
                   bridgeVars, userVars, parserVars, clockVars>>

\* write.send returned Err in the flush: push_front(ob), connected = false, break
FlushWriteErr ==
    /\ wpc = "flush"
    /\ backlog # <<>>
    /\ backlog' = PushFront(PopFront(backlog), Head(backlog))
    /\ backlogged' = backlogged \cup {Head(backlog)}
    /\ wpc' = "disc"
    /\ UNCHANGED <<id_counter, pending, inflight_ids, is_connected, out_q, wcur,
                   sweep_ids, conn, reader, cpc, cid, calls, wire, resp, down_submit,
                   snap_pending, stamps, unbuilt, runnerVars, orderVars, feedVars,
                   bridgeVars, userVars, parserVars, clockVars>>

\* a flush loop that is left with items still in the backlog
FlushDoneEarly ==
    /\ wpc = "flush"
    /\ wpc' = "normal"
    /\ UNCHANGED <<id_counter, pending, inflight_ids, is_connected, out_q, backlog,
                   wcur, sweep_ids, conn, reader, cpc, cid, calls, wire, resp,
                   backlogged, down_submit, snap_pending, stamps, unbuilt, runnerVars,
                   orderVars, feedVars, bridgeVars, userVars, parserVars, clockVars>>

\* the backlog is empty: the writer enters `while connected { select! ... }`
FlushDone ==
    /\ wpc = "flush"
    /\ backlog = <<>>
    /\ wpc' = "normal"
    /\ UNCHANGED <<id_counter, pending, inflight_ids, is_connected, out_q, backlog,
                   wcur, sweep_ids, conn, reader, cpc, cid, calls, wire, resp,
                   backlogged, down_submit, snap_pending, stamps, unbuilt, runnerVars,
                   orderVars, feedVars, bridgeVars, userVars, parserVars, clockVars>>

\* select!: _ = &mut done_rx  (the reader of this socket has finished)
ReaderFinished ==
    /\ wpc = "normal"
    /\ reader[conn] = "done"
    /\ wpc' = "disc"
    /\ UNCHANGED <<id_counter, pending, inflight_ids, is_connected, out_q, backlog,
                   wcur, sweep_ids, conn, reader, cpc, cid, calls, wire, resp,
                   backlogged, down_submit, snap_pending, stamps, unbuilt, runnerVars,
                   orderVars, feedVars, bridgeVars, userVars, parserVars, clockVars>>

\* select!: ping_tick.tick() / ctrl_rx.recv(): a Ping or Pong frame is written;
\* an error sets connected = false
ControlWrite ==
    /\ wpc = "normal"
    /\ \E ok \in BOOLEAN :
          wpc' = IF ok THEN "normal" ELSE "disc"
    /\ UNCHANGED <<id_counter, pending, inflight_ids, is_connected, out_q, backlog,
                   wcur, sweep_ids, conn, reader, cpc, cid, calls, wire, resp,
                   backlogged, down_submit, snap_pending, stamps, unbuilt, runnerVars,
                   orderVars, feedVars, bridgeVars, userVars, parserVars, clockVars>>

\* select!: msg = out_rx.recv(), write.send returned Ok
WriteOutOk ==
    /\ wpc = "normal"
    /\ out_q # <<>>
    /\ out_q' = Tail(out_q)
    /\ wcur' = Head(out_q)
    /\ wire' = [wire EXCEPT ![Head(out_q)] = Append(@, conn)]
    /\ wpc' = "norm_ins"
    /\ UNCHANGED <<id_counter, pending, inflight_ids, is_connected, backlog, sweep_ids,
                   conn, reader, cpc, cid, calls, resp, backlogged, down_submit,
                   snap_pending, stamps, unbuilt, runnerVars, orderVars, feedVars,
                   bridgeVars, userVars, parserVars, clockVars>>

\* Ok(_) => self.inflight_ids.insert(ob.id.clone())   (outbound write)
WriteOutInsert ==
    /\ wpc = "norm_ins"
    /\ inflight_ids' = inflight_ids \cup {wcur}
    /\ wcur' = NoId
    /\ wpc' = "normal"
    /\ UNCHANGED <<id_counter, pending, is_connected, out_q, backlog, sweep_ids, conn,
                   reader, cpc, cid, calls, wire, resp, backlogged, down_submit,
                   snap_pending, stamps, unbuilt, runnerVars, orderVars, feedVars,
                   bridgeVars, userVars, parserVars, clockVars>>

\* a failed outbound write after which the writer keeps using the socket
WriteOutErrStay ==
    /\ wpc = "normal"
    /\ out_q # <<>>
    /\ out_q' = Tail(out_q)
    /\ backlog' = PushFront(backlog, Head(out_q))
    /\ backlogged' = backlogged \cup {Head(out_q)}
    /\ wpc' = "normal"
    /\ UNCHANGED <<id_counter, pending, inflight_ids, is_connected, wcur, sweep_ids,
                   conn, reader, cpc, cid, calls, wire, resp, down_submit,
                   snap_pending, stamps, unbuilt, runnerVars, orderVars, feedVars,
                   bridgeVars, userVars, parserVars, clockVars>>

\* a failed outbound write that marks the id inflight all the same
WriteOutErrMark ==
    /\ wpc = "normal"
    /\ out_q # <<>>
    /\ out_q' = Tail(out_q)
    /\ backlog' = PushFront(backlog, Head(out_q))
    /\ backlogged' = backlogged \cup {Head(out_q)}
    /\ inflight_ids' = inflight_ids \cup {Head(out_q)}
    /\ wpc' = "disc"
    /\ UNCHANGED <<id_counter, pending, is_connected, wcur, sweep_ids, conn, reader,
                   cpc, cid, calls, wire, resp, down_submit, snap_pending, stamps,
                   unbuilt, runnerVars, orderVars, feedVars, bridgeVars, userVars,
                   parserVars, clockVars>>

\* select!: msg = out_rx.recv(), write.send returned Err:
\* backlog.push_front(ob), connected = false
WriteOutErr ==
    /\ wpc = "normal"
    /\ out_q # <<>>
    /\ out_q' = Tail(out_q)
    /\ backlog' = PushFront(backlog, Head(out_q))
    /\ backlogged' = backlogged \cup {Head(out_q)}
    /\ wpc' = "disc"
    /\ UNCHANGED <<id_counter, pending, inflight_ids, is_connected, wcur, sweep_ids,
                   conn, reader, cpc, cid, calls, wire, resp, down_submit,
                   snap_pending, stamps, unbuilt, runnerVars, orderVars, feedVars,
                   bridgeVars, userVars, parserVars, clockVars>>

\* a sweep that takes the ids of the backlog as well
SweepSnapshotWithBacklog == inflight_ids \cup Range(backlog)

\* let ids: Vec<String> = self.inflight_ids.iter().map(|id| id.clone()).collect()
SweepSnapshot == inflight_ids

\* after the loop: is_connected.store(false); fail_inflight_on_disconnect
\* collects the ids
Disconnect ==
    /\ wpc = "disc"
    /\ is_connected' = FALSE
    /\ sweep_ids' = SweepSnapshot
    /\ snap_pending' = inflight_ids \cap pending
    /\ wpc' = "sweep"
    /\ UNCHANGED <<id_counter, pending, inflight_ids, out_q, backlog, wcur, conn,
                   reader, cpc, cid, calls, wire, resp, backlogged, down_submit,
                   stamps, unbuilt, runnerVars, orderVars, feedVars, bridgeVars,
                   userVars, parserVars, clockVars>>

\* a sweep payload that carries no id
SweepPayloadNoId(id) == [DisconnectedPayload(id) EXCEPT !.id = NoId]

\* the payload built in the task spawned by fail_inflight_on_disconnect
SweepPayload(id) == DisconnectedPayload(id)

\* for id in ids: inflight_ids.remove(&id); pending.remove(&id) => spawn cb(v)
fail_inflight_on_disconnect ==
    /\ wpc = "sweep"
    /\ \E id \in sweep_ids :
          /\ sweep_ids' = sweep_ids \ {id}
          /\ inflight_ids' = inflight_ids \ {id}
          /\ pending' = pending \ {id}
          /\ calls' = IF id \in pending
                      THEN [calls EXCEPT ![id] = Append(@, SweepPayload(id))]
                      ELSE calls
    /\ UNCHANGED <<id_counter, is_connected, out_q, backlog, wpc, wcur, conn, reader,
                   cpc, cid, wire, resp, backlogged, down_submit, snap_pending, stamps,
                   unbuilt, runnerVars, orderVars, feedVars, bridgeVars, userVars,
                   parserVars, clockVars>>

\* the sweep is over: sleep(2 s), then the next connect attempt
SweepDone ==
    /\ wpc = "sweep"
    /\ sweep_ids = {}
    /\ wpc' = "connect"
    /\ UNCHANGED <<id_counter, pending, inflight_ids, is_connected, out_q, backlog,
                   wcur, sweep_ids, conn, reader, cpc, cid, calls, wire, resp,
                   backlogged, down_submit, snap_pending, stamps, unbuilt, runnerVars,
                   orderVars, feedVars, bridgeVars, userVars, parserVars, clockVars>>

(***************************************************************************)
(* The reader task of socket c.  It is never aborted: it runs until its    *)
(* read half yields Close, an error or the end of the stream, also after   *)
(* the writer has left the socket.                                         *)
(***************************************************************************)
\* the requests the venue received on socket c
Answerable(c) == {id \in Ids : \E i \in DOMAIN wire[id] : wire[id][i] = c}

\* a delivery that leaves the entry in the map (get instead of remove)
PendingTakeKeep(p, id) == p

\* self.pending.remove(&id)
PendingTake(p, id) == p \ {id}

\* Message::Text(txt) => handle_text(txt): inflight_ids.remove(&id);
\* pending.remove(&id) => spawn cb(v); otherwise event_tx.send (a channel
\* that has no receiver, exchange_trade.rs:94).  A frame that does not parse
\* or carries no id changes nothing and is left out.
handle_text(c) ==
    /\ reader[c] = "live"
    /\ \E id \in Answerable(c) : \E v \in VenueFrames(id) :
          /\ resp[id] < MaxResp
          /\ resp' = [resp EXCEPT ![id] = @ + 1]
          /\ inflight_ids' = inflight_ids \ {extract_id(v)}
          /\ pending' = PendingTake(pending, extract_id(v))
          /\ calls' = IF extract_id(v) \in pending
                      THEN [calls EXCEPT ![extract_id(v)] = Append(@, v)]
                      ELSE calls
    /\ UNCHANGED <<id_counter, is_connected, out_q, backlog, wpc, wcur, sweep_ids,
                   conn, reader, cpc, cid, wire, backlogged, down_submit, snap_pending,
                   stamps, unbuilt, runnerVars, orderVars, feedVars, bridgeVars,
                   userVars, parserVars, clockVars>>

\* Message::Close, a read error or the end of the stream: break, done_tx.send(())
ReaderEnd(c) ==
    /\ reader[c] = "live"
    /\ reader' = [reader EXCEPT ![c] = "done"]
    /\ UNCHANGED <<id_counter, pending, inflight_ids, is_connected, out_q, backlog,
                   wpc, wcur, sweep_ids, conn, cpc, cid, calls, wire, resp, backlogged,
                   down_submit, snap_pending, stamps, unbuilt, runnerVars, orderVars,
                   feedVars, bridgeVars, userVars, parserVars, clockVars>>

BridgeRunning(k) == bridge[k] \in {"check", "recv"}

\* JoinHandle::abort: no effect on a task that has finished
Abort(b) == IF b \in {"check", "recv"} THEN "aborted" ELSE b

\* the owners of the Arc<Library>: the supervisor side (the local `lib` of
\* start, moved into RunningInstance._lib) and the clone moved into the worker
LibOwnersAtSpawnNoClone == {"supervisor"}

LibOwnersAtSpawn == {"supervisor", "worker"}

\* a RunningInstance value goes out of scope: its _lib is dropped
DropInstance(l, k) == IF k = NoInst THEN l ELSE [l EXCEPT ![k] = @ \ {"supervisor"}]

\* self.instances.insert(instance_id, RunningInstance {..})
InsertNothing(m, id, k) == m

Insert(m, id, k) == [m EXCEPT ![id] = k]

\* instances.remove(id)
RemoveNothing(m, id) == m

Remove(m, id) == [m EXCEPT ![id] = NoInst]

\* list(): the info of every registered instance (its instance_id here)
list == {id \in InstanceIds : instances[id] # NoInst}

\* e.value().info.strategy_id == strategy_id
StrategyMatchesAny(id, s) == TRUE

StrategyMatches(id, s) == id[1] = s

\* start returns an error: contains_key => bail!("already running"), or `?` on
\* Library::new / lib.get; nothing has been spawned or registered yet
StartFailAfterSpawn(p, e) ==
    /\ sres' = [sres EXCEPT ![p] = e]
    /\ spc' = [spc EXCEPT ![p] = "failed"]
    /\ IF e = "load" /\ ninc < MaxInc
       THEN /\ ninc' = ninc + 1
            /\ inst_id' = [inst_id EXCEPT ![ninc + 1] = sarg'[p]]
            /\ bridge' = [bridge EXCEPT ![ninc + 1] = "check"]
       ELSE UNCHANGED <<ninc, inst_id, bridge>>
    /\ UNCHANGED <<worker, stop_flag, lib, sync_q, sk>>

StartFail(p, e) ==
    /\ sres' = [sres EXCEPT ![p] = e]
    /\ spc' = [spc EXCEPT ![p] = "failed"]
    /\ UNCHANGED <<ninc, inst_id, worker, bridge, stop_flag, lib, sync_q, sk>>

\* start, first part: contains_key => bail!; Library::new / lib.get may fail;
\* otherwise the sync queue and the stop flag are created and the bridge task
\* and the blocking worker are spawned
StartSpawn(p) ==
    /\ spc[p] = "idle"
    /\ p \in StartersOf(workload)
    /\ \E s \in StrategiesOf(workload), y \in Symbols, loads \in BOOLEAN :
          LET id == InstanceId(s, y) IN
          /\ sarg' = [sarg EXCEPT ![p] = id]
          /\ IF instances[id] # NoInst THEN StartFail(p, "running")
             ELSE IF ~loads THEN StartFail(p, "load")
             ELSE /\ ninc < MaxInc
                  /\ ninc' = ninc + 1
                  /\ inst_id' = [inst_id EXCEPT ![ninc + 1] = id]
                  /\ worker' = [worker EXCEPT ![ninc + 1] = "running"]
                  /\ bridge' = [bridge EXCEPT ![ninc + 1] = "check"]
                  /\ stop_flag' = [stop_flag EXCEPT ![ninc + 1] = FALSE]
                  /\ lib' = [lib EXCEPT ![ninc + 1] = LibOwnersAtSpawn]
                  /\ sync_q' = [sync_q EXCEPT ![ninc + 1] = 0]
                  /\ sk' = [sk EXCEPT ![p] = ninc + 1]
                  /\ spc' = [spc EXCEPT ![p] = "insert"]
                  /\ UNCHANGED sres
    /\ UNCHANGED <<workload, instances, tpc, targ, tk, tpoll, tall, tsid, to_stop,
                   ttodo, kpc, kfinished, kjoin, started, reaped, stop_done, tradeVars,
                   orderVars, feedVars, bridgeVars, userVars, parserVars, clockVars>>

\* start, second part: self.instances.insert(instance_id, RunningInstance {..});
\* a value already stored under the key is replaced and dropped, which
\* detaches its tasks; Ok(info)
StartInsert(p) ==
    /\ spc[p] = "insert"
    /\ instances' = Insert(instances, sarg[p], sk[p])
    /\ lib' = DropInstance(lib, instances[sarg[p]])
    /\ spc' = [spc EXCEPT ![p] = "idle"]
    /\ sarg' = [sarg EXCEPT ![p] = NoKey]
    /\ sk' = [sk EXCEPT ![p] = NoInst]
    /\ started' = started \cup {sarg[p]}
    /\ reaped' = reaped \ {sarg[p]}
    /\ UNCHANGED <<workload, ninc, inst_id, worker, bridge, stop_flag, sync_q, sres,
                   tpc, targ, tk, tpoll, tall, tsid, to_stop, ttodo, kpc, kfinished,
                   kjoin, stop_done, tradeVars, orderVars, feedVars, bridgeVars,
                   userVars, parserVars, clockVars>>

\* the caller of start has its error
StartReturn(p) ==
    /\ spc[p] = "failed"
    /\ spc' = [spc EXCEPT ![p] = "idle"]
    /\ sres' = [sres EXCEPT ![p] = "none"]
    /\ sarg' = [sarg EXCEPT ![p] = NoKey]
    /\ UNCHANGED <<workload, instances, ninc, inst_id, worker, bridge, stop_flag, lib,
                   sync_q, sk, tpc, targ, tk, tpoll, tall, tsid, to_stop, ttodo, kpc,
                   kfinished, kjoin, started, reaped, stop_done, tradeVars, orderVars,
                   feedVars, bridgeVars, userVars, parserVars, clockVars>>

\* bridge_loop: if stop_flag.load() { break }
BridgeCheck(k) ==
    /\ bridge[k] = "check"
    /\ bridge' = [bridge EXCEPT ![k] = IF stop_flag[k] THEN "stopped" ELSE "recv"]
    /\ UNCHANGED <<workload, instances, ninc, inst_id, worker, stop_flag, lib, sync_q,
                   spc, sarg, sk, sres, tpc, targ, tk, tpoll, tall, tsid, to_stop,
                   ttodo, kpc, kfinished, kjoin, started, reaped, stop_done, tradeVars,
                   orderVars, feedVars, bridgeVars, userVars, parserVars, clockVars>>

\* sync_tx.try_send(event): Err when the queue is full or its receiver, which
\* the worker owns until run returns, has been dropped
try_send(k) ==
    IF worker[k] = "running" /\ sync_q[k] < SyncCap THEN sync_q[k] + 1 ELSE sync_q[k]

\* bridge_loop: timeout(100 ms, event_rx.recv()): an event is passed to
\* try_send; Lagged and the timeout continue the loop; Closed breaks
BridgeRecv(k) ==
    /\ bridge[k] = "recv"
    /\ \E r \in {"event", "idle", "closed"} :
          /\ bridge' = [bridge EXCEPT ![k] = IF r = "closed" THEN "stopped" ELSE "check"]
          /\ sync_q' = IF r = "event" THEN [sync_q EXCEPT ![k] = try_send(k)] ELSE sync_q
    /\ UNCHANGED <<workload, instances, ninc, inst_id, worker, stop_flag, lib, spc,
                   sarg, sk, sres, tpc, targ, tk, tpoll, tall, tsid, to_stop, ttodo,
                   kpc, kfinished, kjoin, started, reaped, stop_done, tradeVars,
                   orderVars, feedVars, bridgeVars, userVars, parserVars, clockVars>>

\* the plugin's run takes an event from the sync queue
WorkerRecv(k) ==
    /\ worker[k] = "running"
    /\ sync_q[k] > 0
    /\ sync_q' = [sync_q EXCEPT ![k] = @ - 1]
    /\ UNCHANGED <<workload, instances, ninc, inst_id, worker, bridge, stop_flag, lib,
                   spc, sarg, sk, sres, tpc, targ, tk, tpoll, tall, tsid, to_stop,
                   ttodo, kpc, kfinished, kjoin, started, reaped, stop_done, tradeVars,
                   orderVars, feedVars, bridgeVars, userVars, parserVars, clockVars>>

\* run_strategy: run_fn returns; stop_flag.store(true); the receiver is
\* dropped; drop(lib); the task finishes
WorkerReturn(k) ==
    /\ worker[k] = "running"
    /\ worker' = [worker EXCEPT ![k] = "finished"]
    /\ stop_flag' = [stop_flag EXCEPT ![k] = TRUE]
    /\ sync_q' = [sync_q EXCEPT ![k] = 0]
    /\ lib' = [lib EXCEPT ![k] = @ \ {"worker"}]
    /\ UNCHANGED <<workload, instances, ninc, inst_id, bridge, spc, sarg, sk, sres,
                   tpc, targ, tk, tpoll, tall, tsid, to_stop, ttodo, kpc, kfinished,
                   kjoin, started, reaped, stop_done, tradeVars, orderVars, feedVars,
                   bridgeVars, userVars, parserVars, clockVars>>

\* stop, lines 338-345: instances.get(id) => Err("not found"), or
\* entry.stop_flag.store(true) and the poll loop begins
StopGet(t, id) ==
    IF instances[id] = NoInst
    THEN UNCHANGED <<stop_flag, tpc, targ, tk>>
    ELSE /\ stop_flag' = [stop_flag EXCEPT ![instances[id]] = TRUE]
         /\ targ' = [targ EXCEPT ![t] = id]
         /\ tk' = [tk EXCEPT ![t] = instances[id]]
         /\ tpc' = [tpc EXCEPT ![t] = "poll"]

\* the RunningInstances that were registered under id
InstancesOf(id) ==
    {k \in 1..ninc : inst_id[k] = id /\ ~\E p \in Starters : spc[p] = "insert" /\ sk[p] = k}

\* stop returns Ok(()); inside stop_all the loop goes on
StopOk(t) ==
    /\ tpc' = [tpc EXCEPT ![t] = IF tall[t] THEN "all" ELSE "idle"]
    /\ tpoll' = [tpoll EXCEPT ![t] = 0]
    /\ targ' = [targ EXCEPT ![t] = NoKey]
    /\ tk' = [tk EXCEPT ![t] = NoInst]
    /\ started' = started \ {targ[t]}
    /\ reaped' = reaped \ {targ[t]}
    /\ stop_done' = stop_done \cup InstancesOf(targ[t])

\* stop(instance_id) is called
StopBegin(t) ==
    /\ tpc[t] = "idle"
    /\ t \in StoppersOf(workload)
    /\ workload # "stop_all"
    /\ \E id \in InstanceIds : StopGet(t, id)
    /\ UNCHANGED <<workload, instances, ninc, inst_id, worker, bridge, lib, sync_q,
                   spc, sarg, sk, sres, tpoll, tall, tsid, to_stop, ttodo, kpc,
                   kfinished, kjoin, started, reaped, stop_done, tradeVars, orderVars,
                   feedVars, bridgeVars, userVars, parserVars, clockVars>>

\* stop: for i in 0..100 { if !contains_key { return Ok } sleep(100 ms) }
StopPoll(t) ==
    /\ tpc[t] = "poll"
    /\ tpoll[t] < StopPolls
    /\ IF instances[targ[t]] = NoInst
       THEN StopOk(t)
       ELSE /\ tpoll' = [tpoll EXCEPT ![t] = @ + 1]
            /\ UNCHANGED <<tpc, targ, tk, started, reaped, stop_done>>
    /\ UNCHANGED <<workload, instances, ninc, inst_id, worker, bridge, stop_flag, lib,
                   sync_q, spc, sarg, sk, sres, tall, tsid, to_stop, ttodo, kpc,
                   kfinished, kjoin, tradeVars, orderVars, feedVars, bridgeVars,
                   userVars, parserVars, clockVars>>

\* stop: if let Some((_, inst)) = instances.remove(id) { bridge_task.abort() }; Ok
StopForce(t) ==
    /\ tpc[t] = "poll"
    /\ tpoll[t] = StopPolls
    /\ instances' = Remove(instances, targ[t])
    /\ bridge' = IF instances[targ[t]] = NoInst THEN bridge
                 ELSE [bridge EXCEPT ![instances[targ[t]]] = Abort(@)]
    /\ lib' = DropInstance(lib, instances[targ[t]])
    /\ StopOk(t)
    /\ UNCHANGED <<workload, ninc, inst_id, worker, stop_flag, sync_q, spc, sarg, sk,
                   sres, tall, tsid, to_stop, ttodo, kpc, kfinished, kjoin, tradeVars,
                   orderVars, feedVars, bridgeVars, userVars, parserVars, clockVars>>

\* stop_all: to_stop = the keys of the instances whose info.strategy_id matches
StopAllBegin(t) ==
    /\ tpc[t] = "idle"
    /\ workload = "stop_all"
    /\ t \in StoppersOf(workload)
    /\ \E s \in StrategyIds :
          /\ tsid' = [tsid EXCEPT ![t] = s]
          /\ to_stop' = [to_stop EXCEPT ![t] = {id \in list : StrategyMatches(id, s)}]
          /\ ttodo' = [ttodo EXCEPT ![t] = {id \in list : StrategyMatches(id, s)}]
    /\ tall' = [tall EXCEPT ![t] = TRUE]
    /\ tpc' = [tpc EXCEPT ![t] = "all"]
    /\ UNCHANGED <<workload, instances, ninc, inst_id, worker, bridge, stop_flag, lib,
                   sync_q, spc, sarg, sk, sres, targ, tk, tpoll, kpc, kfinished, kjoin,
                   started, reaped, stop_done, tradeVars, orderVars, feedVars,
                   bridgeVars, userVars, parserVars, clockVars>>

\* stop_all: for id in &to_stop { let _ = self.stop(id).await; }  (the order of
\* to_stop is the iteration order of the DashMap)
StopAllNext(t) ==
    /\ tpc[t] = "all"
    /\ \E id \in ttodo[t] :
          /\ ttodo' = [ttodo EXCEPT ![t] = @ \ {id}]
          /\ StopGet(t, id)
    /\ UNCHANGED <<workload, instances, ninc, inst_id, worker, bridge, lib, sync_q,
                   spc, sarg, sk, sres, tpoll, tall, tsid, to_stop, kpc, kfinished,
                   kjoin, started, reaped, stop_done, tradeVars, orderVars, feedVars,
                   bridgeVars, userVars, parserVars, clockVars>>

\* stop_all: the loop is over, to_stop is returned
StopAllReturn(t) ==
    /\ tpc[t] = "all"
    /\ ttodo[t] = {}
    /\ tpc' = [tpc EXCEPT ![t] = "idle"]
    /\ tall' = [tall EXCEPT ![t] = FALSE]
    /\ to_stop' = [to_stop EXCEPT ![t] = {}]
    /\ tsid' = [tsid EXCEPT ![t] = ""]
    /\ UNCHANGED <<workload, instances, ninc, inst_id, worker, bridge, stop_flag, lib,
                   sync_q, spc, sarg, sk, sres, targ, tk, tpoll, ttodo, kpc, kfinished,
                   kjoin, started, reaped, stop_done, tradeVars, orderVars, feedVars,
                   bridgeVars, userVars, parserVars, clockVars>>

\* cleanup_loop: sleep(1 s); collect the ids whose task.is_finished()
CleanupScan ==
    /\ kpc = "scan"
    /\ kfinished' = {id \in InstanceIds :
                        instances[id] # NoInst /\ worker[instances[id]] = "finished"}
    /\ kpc' = "remove"
    /\ UNCHANGED <<workload, instances, ninc, inst_id, worker, bridge, stop_flag, lib,
                   sync_q, spc, sarg, sk, sres, tpc, targ, tk, tpoll, tall, tsid,
                   to_stop, ttodo, kjoin, started, reaped, stop_done, tradeVars,
                   orderVars, feedVars, bridgeVars, userVars, parserVars, clockVars>>

\* cleanup_loop: for id in finished: instances.remove(&id) => if the bridge has
\* not finished, stop_flag.store(true) and bridge_task.abort(); then inst.task.await
CleanupRemove ==
    /\ kpc = "remove"
    /\ \E id \in kfinished :
          /\ kfinished' = kfinished \ {id}
          /\ instances' = Remove(instances, id)
          /\ IF instances[id] = NoInst
             THEN UNCHANGED <<stop_flag, bridge, kpc, kjoin, reaped>>
             ELSE LET k == instances[id] IN
                  /\ stop_flag' = IF BridgeRunning(k)
                                  THEN [stop_flag EXCEPT ![k] = TRUE] ELSE stop_flag
                  /\ bridge' = [bridge EXCEPT ![k] = Abort(@)]
                  /\ kjoin' = k
                  /\ kpc' = "join"
                  /\ reaped' = reaped \cup {id}
    /\ UNCHANGED <<workload, ninc, inst_id, worker, lib, sync_q, spc, sarg, sk, sres,
                   tpc, targ, tk, tpoll, tall, tsid, to_stop, ttodo, started,
                   stop_done, tradeVars, orderVars, feedVars, bridgeVars, userVars,
                   parserVars, clockVars>>

\* cleanup_loop: inst.task.await returns when the worker has finished; inst is
\* dropped at the end of the block
CleanupJoin ==
    /\ kpc = "join"
    /\ worker[kjoin] = "finished"
    /\ lib' = DropInstance(lib, kjoin)
    /\ kjoin' = NoInst
    /\ kpc' = "remove"
    /\ UNCHANGED <<workload, instances, ninc, inst_id, worker, bridge, stop_flag,
                   sync_q, spc, sarg, sk, sres, tpc, targ, tk, tpoll, tall, tsid,
                   to_stop, ttodo, kfinished, started, reaped, stop_done, tradeVars,
                   orderVars, feedVars, bridgeVars, userVars, parserVars, clockVars>>

\* cleanup_loop: the list is exhausted, next round
CleanupDone ==
    /\ kpc = "remove"
    /\ kfinished = {}
    /\ kpc' = "scan"
    /\ UNCHANGED <<workload, instances, ninc, inst_id, worker, bridge, stop_flag, lib,
                   sync_q, spc, sarg, sk, sres, tpc, targ, tk, tpoll, tall, tsid,
                   to_stop, ttodo, kfinished, kjoin, started, reaped, stop_done,
                   tradeVars, orderVars, feedVars, bridgeVars, userVars, parserVars,
                   clockVars>>

\* StrategyRunner::new, before any call
RunnerInit ==
    /\ instances = [id \in InstanceIds |-> NoInst]
    /\ ninc = 0
    /\ inst_id = [k \in Incs |-> NoKey]
    /\ worker = [k \in Incs |-> "none"]
    /\ bridge = [k \in Incs |-> "none"]
    /\ stop_flag = [k \in Incs |-> FALSE]
    /\ lib = [k \in Incs |-> {}]
    /\ sync_q = [k \in Incs |-> 0]
    /\ spc = [p \in Starters |-> "idle"]
    /\ sarg = [p \in Starters |-> NoKey]
    /\ sk = [p \in Starters |-> NoInst]
    /\ sres = [p \in Starters |-> "none"]
    /\ tpc = [t \in Stoppers |-> "idle"]
    /\ targ = [t \in Stoppers |-> NoKey]
    /\ tk = [t \in Stoppers |-> NoInst]
    /\ tpoll = [t \in Stoppers |-> 0]
    /\ tall = [t \in Stoppers |-> FALSE]
    /\ tsid = [t \in Stoppers |-> ""]
    /\ to_stop = [t \in Stoppers |-> {}]
    /\ ttodo = [t \in Stoppers |-> {}]
    /\ kpc = "scan"
    /\ kfinished = {}
    /\ kjoin = NoInst
    /\ started = {}
    /\ reaped = {}
    /\ stop_done = {}

start == \E p \in Starters : StartSpawn(p) \/ StartInsert(p) \/ StartReturn(p)

stop == \E t \in Stoppers : StopBegin(t) \/ StopPoll(t) \/ StopForce(t)

stop_all == \E t \in Stoppers : StopAllBegin(t) \/ StopAllNext(t) \/ StopAllReturn(t)

bridge_loop == \E k \in Incs : BridgeCheck(k) \/ BridgeRecv(k)

run_strategy == \E k \in Incs : WorkerRecv(k) \/ WorkerReturn(k)

cleanup_loop == CleanupScan \/ CleanupRemove \/ CleanupJoin \/ CleanupDone

RunnerNext == start \/ stop \/ stop_all \/ bridge_loop \/ run_strategy \/ cleanup_loop

(***************************************************************************)
(* The response payloads a callback can be called with: what the venue     *)
(* sends (any combination of an error member, with an integer or another   *)
(* code, and result.orderId) and the payload of the disconnect sweep.      *)
(***************************************************************************)
ErrorCodes == {-2011, -1021, -1, 0}
OrderIds == {0, 42, 43}

Payloads ==
    {v \in [id : {1}, etag : {"none", "int", "str"}, ecode : ErrorCodes,
            estr : {"", "Disconnected"}, hasOid : BOOLEAN, oid : OrderIds] :
        /\ v.etag # "int" => v.ecode = 0
        /\ v.etag # "str" => v.estr = ""
        /\ ~v.hasOid => v.oid = 0}

NoPayload == [id |-> 0, etag |-> "none", ecode |-> 0, estr |-> "", hasOid |-> FALSE, oid |-> 0]
NoResult == [success |-> FALSE, order_id |-> 0, error_code |-> 0]

\* place_order: handle_resp(resp) is called with a payload; callback(result)
PlaceCallback ==
    /\ \E v \in Payloads :
          /\ payload' = v
          /\ place_result' = handle_resp(v)
    /\ cancel_result' = NoResult
    /\ cancel_id' = 0
    /\ UNCHANGED <<tradeVars, runnerVars, feedVars, bridgeVars, userVars, parserVars,
                   clockVars>>

\* cancel_order: the closure is called with a payload; callback(result)
CancelCallback ==
    /\ \E v \in Payloads, oid \in OrderIds :
          /\ payload' = v
          /\ cancel_id' = oid
          /\ cancel_result' = cancel_resp(v, oid)
    /\ place_result' = NoResult
    /\ UNCHANGED <<tradeVars, runnerVars, feedVars, bridgeVars, userVars, parserVars,
                   clockVars>>

OrderInit ==
    /\ payload = NoPayload
    /\ place_result = NoResult
    /\ cancel_id = 0
    /\ cancel_result = NoResult

OrderNext == PlaceCallback \/ CancelCallback

\* the text frames a socket delivers, as far as handle_text looks at them:
\* which of the tests txt.contains("\"bookTicker\"") and txt.contains("\"trade\"")
\* is the first to hold, and whether simd_json parses the frame into the Raw struct
FrameTags == {"bookTicker", "trade", "other"}

\* the frames socket sock can deliver as the n-th frame of the run; a frame
\* with neither tag is not parsed at all
Frames(sock, n) ==
    {[sock |-> sock, n |-> n, tag |-> tag, ok |-> ok] :
        tag \in {"bookTicker", "trade"}, ok \in BOOLEAN}
    \cup {[sock |-> sock, n |-> n, tag |-> "other", ok |-> FALSE]}

\* Command::ListSubscriptions, which carries no number of its own
ListSubscriptions == [kind |-> "LIST_SUBSCRIPTIONS", n |-> 0]

\* the n-th command submitted through subscribe_* / unsubscribe_*
Command(n) == [kind |-> "SUBSCRIBE", n |-> n]

\* cmd_tx.send(cmd): the mpsc channel is first in, first out
cmd_tx_send_front(q, c) == <<c>> \o q

cmd_tx_send(q, c) == Append(q, c)

\* the CEvent made from frame f: event_type 0 for a book ticker, 1 for a trade
CEventOf(f) ==
    [sock |-> f.sock, n |-> f.n, event_type |-> IF f.tag = "bookTicker" THEN 0 ELSE 1]

\* let _ = self.event_tx.send(c_event)
SendFirst(bus, e) == <<e>> \o bus

Send(bus, e) == Append(bus, e)

\* a handle_text that publishes an event for a frame that does not parse
ExchangeData_handle_text_lenient(bus, f) ==
    IF f.tag \in {"bookTicker", "trade"} THEN Send(bus, CEventOf(f)) ELSE bus

\* handle_text: a frame that parses is converted and sent on event_tx, a
\* parse error is logged, any other frame is ignored
ExchangeData_handle_text(bus, f) ==
    IF f.tag \in {"bookTicker", "trade"} /\ f.ok THEN Send(bus, CEventOf(f)) ELSE bus

\* connect_async Ok: is_connected = true, the reader task is spawned
FeedConnectOk ==
    /\ fd_pc = "connect"
    /\ fd_conn < MaxFeedConn
    /\ fd_conn' = fd_conn + 1
    /\ fd_connected' = TRUE
    /\ fd_reader' = "running"
    /\ fd_idle' = 0
    /\ fd_pc' = "serve"
    /\ UNCHANGED <<fd_cmds, fd_nsub, fd_pings, fd_wire, fd_frames, fd_bus, tradeVars,
                   runnerVars, orderVars, bridgeVars, userVars, parserVars, clockVars>>

\* connect_async Err: is_connected = false, sleep(3 s)
FeedConnectErr ==
    /\ fd_pc = "connect"
    /\ fd_connected' = FALSE
    /\ fd_pc' = "sleep"
    /\ UNCHANGED <<fd_conn, fd_reader, fd_cmds, fd_nsub, fd_idle, fd_pings, fd_wire,
                   fd_frames, fd_bus, tradeVars, runnerVars, orderVars, bridgeVars,
                   userVars, parserVars, clockVars>>

\* subscribe_* / unsubscribe_*: cmd_tx.send(command).await, which waits
\* while the channel is full
FeedSubmit ==
    /\ fd_nsub < MaxCmds
    /\ Len(fd_cmds) < CmdCap
    /\ fd_nsub' = fd_nsub + 1
    /\ fd_cmds' = cmd_tx_send(fd_cmds, Command(fd_nsub + 1))
    /\ UNCHANGED <<fd_pc, fd_connected, fd_conn, fd_reader, fd_idle, fd_pings, fd_wire,
                   fd_frames, fd_bus, tradeVars, runnerVars, orderVars, bridgeVars,
                   userVars, parserVars, clockVars>>

\* reader: Message::Text(txt) => handle_text(txt)
FeedText ==
    /\ fd_reader = "running"
    /\ Len(fd_frames) < MaxFrames
    /\ \E f \in Frames(fd_conn, Len(fd_frames) + 1) :
          /\ fd_frames' = Append(fd_frames, f)
          /\ fd_bus' = ExchangeData_handle_text(fd_bus, f)
    /\ fd_idle' = 0
    /\ UNCHANGED <<fd_pc, fd_connected, fd_conn, fd_reader, fd_cmds, fd_nsub, fd_pings,
                   fd_wire, tradeVars, runnerVars, orderVars, bridgeVars, userVars,
                   parserVars, clockVars>>

\* reader: the 5 s timeout => cmd_tx.send(Command::ListSubscriptions).await,
\* which waits while the channel is full; the send cannot fail, the receiver
\* lives as long as run_socket; the reader goes on reading
FeedTimeout ==
    /\ fd_reader = "running"
    /\ fd_pings < MaxTimeouts
    /\ Len(fd_cmds) < CmdCap
    /\ fd_pings' = fd_pings + 1
    /\ fd_idle' = fd_idle + 1
    /\ fd_cmds' = cmd_tx_send(fd_cmds, ListSubscriptions)
    /\ UNCHANGED <<fd_pc, fd_connected, fd_conn, fd_reader, fd_nsub, fd_wire,
                   fd_frames, fd_bus, tradeVars, runnerVars, orderVars, bridgeVars,
                   userVars, parserVars, clockVars>>

\* reader: Close, a read error or the end of the stream => break
FeedReaderEnd ==
    /\ fd_reader = "running"
    /\ fd_reader' = "done"
    /\ UNCHANGED <<fd_pc, fd_connected, fd_conn, fd_cmds, fd_nsub, fd_idle, fd_pings,
                   fd_wire, fd_frames, fd_bus, tradeVars, runnerVars, orderVars,
                   bridgeVars, userVars, parserVars, clockVars>>

\* writer: cmd_rx.recv() => write.send(Message::Text(command_to_json(cmd))) Ok
FeedWriteOk ==
    /\ fd_pc = "serve"
    /\ fd_cmds # <<>>
    /\ fd_cmds' = Tail(fd_cmds)
    /\ fd_wire' = Append(fd_wire, <<Head(fd_cmds), fd_conn>>)
    /\ UNCHANGED <<fd_pc, fd_connected, fd_conn, fd_reader, fd_nsub, fd_idle, fd_pings,
                   fd_frames, fd_bus, tradeVars, runnerVars, orderVars, bridgeVars,
                   userVars, parserVars, clockVars>>

\* writer: write.send fails => break; the command is gone
FeedWriteErr ==
    /\ fd_pc = "serve"
    /\ fd_cmds # <<>>
    /\ fd_cmds' = Tail(fd_cmds)
    /\ fd_pc' = "join"
    /\ UNCHANGED <<fd_connected, fd_conn, fd_reader, fd_nsub, fd_idle, fd_pings,
                   fd_wire, fd_frames, fd_bus, tradeVars, runnerVars, orderVars,
                   bridgeVars, userVars, parserVars, clockVars>>

\* writer: reader.await returns; is_connected = false; sleep(3 s)
FeedJoin ==
    /\ fd_pc = "join"
    /\ fd_reader = "done"
    /\ fd_reader' = "none"
    /\ fd_connected' = FALSE
    /\ fd_pc' = "sleep"
    /\ UNCHANGED <<fd_conn, fd_cmds, fd_nsub, fd_idle, fd_pings, fd_wire, fd_frames,
                   fd_bus, tradeVars, runnerVars, orderVars, bridgeVars, userVars,
                   parserVars, clockVars>>

\* writer: the sleep is over, next connect attempt
FeedSleepDone ==
    /\ fd_pc = "sleep"
    /\ fd_pc' = "connect"
    /\ UNCHANGED <<fd_connected, fd_conn, fd_reader, fd_cmds, fd_nsub, fd_idle,
                   fd_pings, fd_wire, fd_frames, fd_bus, tradeVars, runnerVars,
                   orderVars, bridgeVars, userVars, parserVars, clockVars>>

FeedInit ==
    /\ fd_pc = "connect"
    /\ fd_connected = FALSE
    /\ fd_conn = 0
    /\ fd_reader = "none"
    /\ fd_cmds = <<>>
    /\ fd_nsub = 0
    /\ fd_idle = 0
    /\ fd_pings = 0
    /\ fd_wire = <<>>
    /\ fd_frames = <<>>
    /\ fd_bus = <<>>

ExchangeData_run_socket ==
    \/ FeedConnectOk
    \/ FeedConnectErr
    \/ FeedWriteOk
    \/ FeedWriteErr
    \/ FeedJoin
    \/ FeedSleepDone

ExchangeData_reader == FeedText \/ FeedTimeout \/ FeedReaderEnd

FeedNext == ExchangeData_run_socket \/ ExchangeData_reader \/ FeedSubmit

(***************************************************************************)
(* bridge_loop and the sync queue                                          *)
(***************************************************************************)
\* a market event: CEvent with event_type 0 (book ticker) or 1 (trade)
MarketEvent(n) == [src |-> "market", n |-> n, event_type |-> n % 2]

\* a user-data event: OrderUpdate (2) or AccountUpdate (3)
UserEvent(n) == [src |-> "user", n |-> n, event_type |-> 2 + (n % 2)]

\* broadcast send as one receiver sees it: when the receiver already holds
\* cap events the oldest is overwritten
Retained(buf, e, cap) == IF Len(buf) >= cap THEN Append(Tail(buf), e) ELSE Append(buf, e)

Overwritten(buf, cap) == IF Len(buf) >= cap THEN 1 ELSE 0

\* event_rx.recv() gives the oldest event held for the receiver
event_rx_recv_newest(buf) == buf[Len(buf)]

event_rx_recv(buf) == Head(buf)

\* sync_tx.try_send(event) is Ok when the receiver is alive and the queue is
\* below its capacity (bounded(8192))
TrySendAlways(i) == TRUE

TrySendOk(i) == br_worker[i] = "running" /\ Len(br_q[i]) < SyncCap

\* dropped % 1000 == 0
Lagging(dropped) == dropped % WarnEvery = 0

\* start: the sync queue and the stop flag are made, the bridge and the worker
\* are spawned; the bridge forwards event_rx, which the caller subscribed;
\* user says whether user_data_manager.subscribe(api_key) gave a receiver,
\* which is handed to the plugin through StrategyConfig.user_data_rx
BridgeSpawn(i) ==
    /\ i \in BridgesOf(br_load)
    /\ br_pc[i] = "none"
    /\ \E user \in UserFeedsOf(br_load) : br_has_user' = [br_has_user EXCEPT ![i] = user]
    /\ br_pc' = [br_pc EXCEPT ![i] = "check"]
    /\ br_worker' = [br_worker EXCEPT ![i] = "running"]
    /\ br_from' = [br_from EXCEPT ![i] = br_sent]
    /\ UNCHANGED <<br_load, br_flag, br_open, br_sent, br_usent, br_sub, br_lag, br_q,
                   br_user_rx, br_taken, br_enq, br_dropped, br_warned, tradeVars,
                   runnerVars, orderVars, feedVars, userVars, parserVars, clockVars>>

\* MarketFeed publishes an event: every subscribed receiver gets it
BusPublish ==
    /\ br_open
    /\ br_sent < MaxBusEvents
    /\ br_sent' = br_sent + 1
    /\ br_sub' = [i \in Bridges |->
                    IF br_pc[i] \in {"check", "recv"}
                    THEN Retained(br_sub[i], MarketEvent(br_sent + 1), BusCap)
                    ELSE br_sub[i]]
    /\ br_lag' = [i \in Bridges |->
                    IF br_pc[i] \in {"check", "recv"}
                    THEN br_lag[i] + Overwritten(br_sub[i], BusCap)
                    ELSE br_lag[i]]
    /\ UNCHANGED <<br_load, br_pc, br_flag, br_worker, br_has_user, br_open, br_usent,
                   br_from, br_q, br_user_rx, br_taken, br_enq, br_dropped, br_warned,
                   tradeVars, runnerVars, orderVars, feedVars, userVars, parserVars,
                   clockVars>>

\* the bus loses its sender
BusClose ==
    /\ br_load = "single"
    /\ br_open
    /\ br_open' = FALSE
    /\ UNCHANGED <<br_load, br_pc, br_flag, br_worker, br_has_user, br_sent, br_usent,
                   br_from, br_sub, br_lag, br_q, br_user_rx, br_taken, br_enq,
                   br_dropped, br_warned, tradeVars, runnerVars, orderVars, feedVars,
                   userVars, parserVars, clockVars>>

\* UserFeed publishes an event: the receiver of every instance that has one gets it
UserPublish ==
    /\ br_usent < MaxUserEvents
    /\ \E i \in Bridges : br_has_user[i]
    /\ br_usent' = br_usent + 1
    /\ br_user_rx' = [i \in Bridges |->
                        IF br_has_user[i] THEN Append(br_user_rx[i], UserEvent(br_usent + 1))
                        ELSE br_user_rx[i]]
    /\ UNCHANGED <<br_load, br_pc, br_flag, br_worker, br_has_user, br_open, br_sent,
                   br_from, br_sub, br_lag, br_q, br_taken, br_enq, br_dropped,
                   br_warned, tradeVars, runnerVars, orderVars, feedVars, userVars,
                   parserVars, clockVars>>

\* a bridge that does not look at the flag
stop_flag_load_never(i) == FALSE

\* stop_flag.load(Ordering::Relaxed)
stop_flag_load(i) == br_flag[i]

\* bridge_loop: if stop_flag.load() { break }; the receiver is dropped with the task
BridgeLoopCheck(i) ==
    /\ br_pc[i] = "check"
    /\ br_pc' = [br_pc EXCEPT ![i] = IF stop_flag_load(i) THEN "stopped" ELSE "recv"]
    /\ br_sub' = [br_sub EXCEPT ![i] = IF stop_flag_load(i) THEN <<>> ELSE @]
    /\ br_lag' = [br_lag EXCEPT ![i] = IF stop_flag_load(i) THEN 0 ELSE @]
    /\ UNCHANGED <<br_load, br_flag, br_worker, br_has_user, br_open, br_sent,
                   br_usent, br_from, br_q, br_user_rx, br_taken, br_enq, br_dropped,
                   br_warned, tradeVars, runnerVars, orderVars, feedVars, userVars,
                   parserVars, clockVars>>

\* bridge_loop: Ok(Ok(event)) => try_send; on Err dropped += 1 and a warning
\* when dropped % 1000 == 0
BridgeLoopEvent(i) ==
    /\ br_pc[i] = "recv"
    /\ br_lag[i] = 0
    /\ br_sub[i] # <<>>
    /\ LET event == event_rx_recv(br_sub[i]) IN
       /\ br_sub' = [br_sub EXCEPT ![i] = Tail(@)]
       /\ br_taken' = [br_taken EXCEPT ![i] = @ + 1]
       /\ IF TrySendOk(i)
          THEN /\ br_q' = [br_q EXCEPT ![i] = Append(@, event)]
               /\ br_enq' = [br_enq EXCEPT ![i] = Append(@, event)]
               /\ UNCHANGED <<br_dropped, br_warned>>
          ELSE /\ br_dropped' = [br_dropped EXCEPT ![i] = @ + 1]
               /\ br_warned' = [br_warned EXCEPT ![i] =
                                   IF Lagging(br_dropped[i] + 1) THEN @ \cup {br_dropped[i] + 1}
                                   ELSE @]
               /\ UNCHANGED <<br_q, br_enq>>
    /\ br_pc' = [br_pc EXCEPT ![i] = "check"]
    /\ UNCHANGED <<br_load, br_flag, br_worker, br_has_user, br_open, br_sent,
                   br_usent, br_from, br_lag, br_user_rx, tradeVars, runnerVars,
                   orderVars, feedVars, userVars, parserVars, clockVars>>

\* bridge_loop: Ok(Err(Lagged(n))) => a warning, the loop goes on
BridgeLoopLagged(i) ==
    /\ br_pc[i] = "recv"
    /\ br_lag[i] > 0
    /\ br_lag' = [br_lag EXCEPT ![i] = 0]
    /\ br_pc' = [br_pc EXCEPT ![i] = "check"]
    /\ UNCHANGED <<br_load, br_flag, br_worker, br_has_user, br_open, br_sent,
                   br_usent, br_from, br_sub, br_q, br_user_rx, br_taken, br_enq,
                   br_dropped, br_warned, tradeVars, runnerVars, orderVars, feedVars,
                   userVars, parserVars, clockVars>>

\* bridge_loop: Err(_), the 100 ms timeout => the loop goes on
BridgeLoopTimeout(i) ==
    /\ br_pc[i] = "recv"
    /\ br_lag[i] = 0
    /\ br_sub[i] = <<>>
    /\ br_open
    /\ br_pc' = [br_pc EXCEPT ![i] = "check"]
    /\ UNCHANGED <<br_load, br_flag, br_worker, br_has_user, br_open, br_sent,
                   br_usent, br_from, br_sub, br_lag, br_q, br_user_rx, br_taken,
                   br_enq, br_dropped, br_warned, tradeVars, runnerVars, orderVars,
                   feedVars, userVars, parserVars, clockVars>>

\* bridge_loop: Ok(Err(Closed)) => break
BridgeLoopClosed(i) ==
    /\ br_pc[i] = "recv"
    /\ br_lag[i] = 0
    /\ br_sub[i] = <<>>
    /\ ~br_open
    /\ br_pc' = [br_pc EXCEPT ![i] = "stopped"]
    /\ UNCHANGED <<br_load, br_flag, br_worker, br_has_user, br_open, br_sent,
                   br_usent, br_from, br_sub, br_lag, br_q, br_user_rx, br_taken,
                   br_enq, br_dropped, br_warned, tradeVars, runnerVars, orderVars,
                   feedVars, userVars, parserVars, clockVars>>

\* the plugin's run takes the oldest event from the sync queue
PluginRecv(i) ==
    /\ br_worker[i] = "running"
    /\ br_q[i] # <<>>
    /\ br_q' = [br_q EXCEPT ![i] = Tail(@)]
    /\ UNCHANGED <<br_load, br_pc, br_flag, br_worker, br_has_user, br_open, br_sent,
                   br_usent, br_from, br_sub, br_lag, br_user_rx, br_taken, br_enq,
                   br_dropped, br_warned, tradeVars, runnerVars, orderVars, feedVars,
                   userVars, parserVars, clockVars>>

\* run_strategy: run_fn returns; stop_flag.store(true); the receiver is
\* dropped with what it holds
PluginReturn(i) ==
    /\ br_load = "single"
    /\ br_worker[i] = "running"
    /\ br_worker' = [br_worker EXCEPT ![i] = "finished"]
    /\ br_flag' = [br_flag EXCEPT ![i] = TRUE]
    /\ br_q' = [br_q EXCEPT ![i] = <<>>]
    /\ UNCHANGED <<br_load, br_pc, br_has_user, br_open, br_sent, br_usent, br_from,
                   br_sub, br_lag, br_user_rx, br_taken, br_enq, br_dropped, br_warned,
                   tradeVars, runnerVars, orderVars, feedVars, userVars, parserVars,
                   clockVars>>

\* stop: stop_flag.store(true)
BridgeStopFlag(i) ==
    /\ br_load = "single"
    /\ br_pc[i] # "none"
    /\ ~br_flag[i]
    /\ br_flag' = [br_flag EXCEPT ![i] = TRUE]
    /\ UNCHANGED <<br_load, br_pc, br_worker, br_has_user, br_open, br_sent, br_usent,
                   br_from, br_sub, br_lag, br_q, br_user_rx, br_taken, br_enq,
                   br_dropped, br_warned, tradeVars, runnerVars, orderVars, feedVars,
                   userVars, parserVars, clockVars>>

BridgeInit ==
    /\ br_pc = [i \in Bridges |-> "none"]
    /\ br_flag = [i \in Bridges |-> FALSE]
    /\ br_worker = [i \in Bridges |-> "none"]
    /\ br_has_user = [i \in Bridges |-> FALSE]
    /\ br_open = TRUE
    /\ br_sent = 0
    /\ br_usent = 0
    /\ br_from = [i \in Bridges |-> 0]
    /\ br_sub = [i \in Bridges |-> <<>>]
    /\ br_lag = [i \in Bridges |-> 0]
    /\ br_q = [i \in Bridges |-> <<>>]
    /\ br_user_rx = [i \in Bridges |-> <<>>]
    /\ br_taken = [i \in Bridges |-> 0]
    /\ br_enq = [i \in Bridges |-> <<>>]
    /\ br_dropped = [i \in Bridges |-> 0]
    /\ br_warned = [i \in Bridges |-> {}]

\* one turn of the loop of bridge i
BridgeLoopStep(i) ==
    \/ BridgeLoopCheck(i)
    \/ BridgeLoopEvent(i)
    \/ BridgeLoopLagged(i)
    \/ BridgeLoopTimeout(i)
    \/ BridgeLoopClosed(i)

BridgeLoop == \E i \in Bridges : BridgeLoopStep(i)

Plugin == \E i \in Bridges : PluginRecv(i) \/ PluginReturn(i)

BridgeNext ==
    \/ \E i \in Bridges : BridgeSpawn(i) \/ BridgeStopFlag(i)
    \/ BusPublish
    \/ BusClose
    \/ UserPublish
    \/ BridgeLoop
    \/ Plugin
(***************************************************************************)
(* UserDataManager                                                         *)
(***************************************************************************)
Min2(a, b) == IF a < b THEN a ELSE b

\* retry_delay = (retry_delay * 2).min(60)
NextDelayNoCap(d) == d * 2

NextDelay(d) == Min2(d * 2, MaxDelay)

\* JoinHandle::abort: a task that has not finished is cancelled
AbortTask(pc) == IF pc \in {"none", "ended"} THEN pc ELSE "aborted"

TaskRuns(pc) == pc \notin {"none", "ended", "aborted"}

\* connect: if let Some(h) = streams.get(&key_hash) => return h.event_tx.subscribe();
\* otherwise go on to get_listen_key
ConnectCheck(c) ==
    /\ c \in ConnectorsOf(ud_load)
    /\ ud_cpc[c] = "idle"
    /\ IF ud_streams # NoStream
       THEN /\ ud_csub[c] # ud_streams
            /\ ud_csub' = [ud_csub EXCEPT ![c] = ud_streams]
            /\ UNCHANGED ud_cpc
       ELSE /\ ud_nstreams < StreamsOf(ud_load)
            /\ ud_cpc' = [ud_cpc EXCEPT ![c] = "getkey"]
            /\ UNCHANGED ud_csub
    /\ UNCHANGED <<ud_load, ud_streams, ud_nstreams, ud_tok, ud_ckey, ud_shutdown,
                   ud_ws, ud_refresh, ud_pong, ud_retry, ud_key, ud_att, ud_last,
                   ud_delays, tradeVars, runnerVars, orderVars, feedVars, bridgeVars,
                   parserVars, clockVars>>

\* connect: self.get_listen_key(&api_key).await?
ConnectGetKey(c) ==
    /\ ud_cpc[c] = "getkey"
    /\ \/ /\ ud_tok < MaxTokens
          /\ ud_tok' = ud_tok + 1
          /\ ud_ckey' = [ud_ckey EXCEPT ![c] = ud_tok + 1]
          /\ ud_cpc' = [ud_cpc EXCEPT ![c] = "spawn"]
       \/ /\ ud_cpc' = [ud_cpc EXCEPT ![c] = "idle"]
          /\ UNCHANGED <<ud_tok, ud_ckey>>
    /\ UNCHANGED <<ud_load, ud_streams, ud_nstreams, ud_csub, ud_shutdown, ud_ws,
                   ud_refresh, ud_pong, ud_retry, ud_key, ud_att, ud_last, ud_delays,
                   tradeVars, runnerVars, orderVars, feedVars, bridgeVars, parserVars,
                   clockVars>>

\* connect: the ws task and the refresh task are spawned and the handle is
\* inserted under the key hash; a handle already there is replaced and
\* dropped, which leaves its tasks running
ConnectSpawn(c) ==
    /\ ud_cpc[c] = "spawn"
    /\ ud_nstreams < StreamsOf(ud_load)
    /\ LET s == ud_nstreams + 1 IN
       /\ ud_nstreams' = s
       /\ ud_streams' = s
       /\ ud_ws' = [ud_ws EXCEPT ![s] = "check"]
       /\ ud_refresh' = [ud_refresh EXCEPT ![s] = "sleep"]
       /\ ud_key' = [ud_key EXCEPT ![s] = ud_ckey[c]]
       /\ ud_csub' = [ud_csub EXCEPT ![c] = s]
    /\ ud_cpc' = [ud_cpc EXCEPT ![c] = "idle"]
    /\ ud_ckey' = [ud_ckey EXCEPT ![c] = NoToken]
    /\ UNCHANGED <<ud_load, ud_tok, ud_shutdown, ud_pong, ud_retry, ud_att, ud_last,
                   ud_delays, tradeVars, runnerVars, orderVars, feedVars, bridgeVars,
                   parserVars, clockVars>>

\* disconnect: streams.remove; shutdown.store(true); ws_task.abort();
\* refresh_task.abort(); delete_listen_key
Disconnect_stream ==
    /\ ud_streams # NoStream
    /\ ud_streams' = NoStream
    /\ ud_shutdown' = [ud_shutdown EXCEPT ![ud_streams] = TRUE]
    /\ ud_ws' = [ud_ws EXCEPT ![ud_streams] = AbortTask(@)]
    /\ ud_refresh' = [ud_refresh EXCEPT ![ud_streams] = AbortTask(@)]
    /\ UNCHANGED <<ud_load, ud_nstreams, ud_tok, ud_cpc, ud_ckey, ud_csub, ud_pong,
                   ud_retry, ud_key, ud_att, ud_last, ud_delays, tradeVars, runnerVars,
                   orderVars, feedVars, bridgeVars, parserVars, clockVars>>

\* ws_loop: if shutdown.load() { break }
WsCheck(s) ==
    /\ ud_ws[s] = "check"
    /\ ud_ws' = [ud_ws EXCEPT ![s] = IF ud_shutdown[s] THEN "ended" ELSE "connect"]
    /\ UNCHANGED <<ud_load, ud_streams, ud_nstreams, ud_tok, ud_cpc, ud_ckey, ud_csub,
                   ud_shutdown, ud_refresh, ud_pong, ud_retry, ud_key, ud_att, ud_last,
                   ud_delays, tradeVars, runnerVars, orderVars, feedVars, bridgeVars,
                   parserVars, clockVars>>

\* ws_loop: connect_async Ok => retry_delay = 1; the pong task is spawned
WsConnectOk(s) ==
    /\ ud_ws[s] = "connect"
    /\ ud_att[s] < AttemptsOf(ud_load)
    /\ ud_att' = [ud_att EXCEPT ![s] = @ + 1]
    /\ ud_retry' = [ud_retry EXCEPT ![s] = InitialDelay]
    /\ ud_delays' = [ud_delays EXCEPT ![s] = <<>>]
    /\ ud_pong' = [ud_pong EXCEPT ![s] = "sleep"]
    /\ ud_ws' = [ud_ws EXCEPT ![s] = "read"]
    /\ UNCHANGED <<ud_load, ud_streams, ud_nstreams, ud_tok, ud_cpc, ud_ckey, ud_csub,
                   ud_shutdown, ud_refresh, ud_key, ud_last, tradeVars, runnerVars,
                   orderVars, feedVars, bridgeVars, parserVars, clockVars>>

\* ws_loop: connect_async Err
WsConnectErr(s) ==
    /\ ud_ws[s] = "connect"
    /\ ud_att[s] < AttemptsOf(ud_load)
    /\ ud_att' = [ud_att EXCEPT ![s] = @ + 1]
    /\ ud_ws' = [ud_ws EXCEPT ![s] = "after"]
    /\ UNCHANGED <<ud_load, ud_streams, ud_nstreams, ud_tok, ud_cpc, ud_ckey, ud_csub,
                   ud_shutdown, ud_refresh, ud_pong, ud_retry, ud_key, ud_last,
                   ud_delays, tradeVars, runnerVars, orderVars, feedVars, bridgeVars,
                   parserVars, clockVars>>

\* ws_loop: the read loop ends (Close, an error, the end of the stream, or a
\* message read after shutdown was set); pong_task.abort()
WsDrop(s) ==
    /\ ud_ws[s] = "read"
    /\ ud_last' = [ud_last EXCEPT ![s] = ud_key[s]]
    /\ ud_pong' = [ud_pong EXCEPT ![s] = AbortTask(@)]
    /\ ud_ws' = [ud_ws EXCEPT ![s] = "after"]
    /\ UNCHANGED <<ud_load, ud_streams, ud_nstreams, ud_tok, ud_cpc, ud_ckey, ud_csub,
                   ud_shutdown, ud_refresh, ud_retry, ud_key, ud_att, ud_delays,
                   tradeVars, runnerVars, orderVars, feedVars, bridgeVars, parserVars,
                   clockVars>>

\* ws_loop: if shutdown.load() { break } before the reconnect delay
WsAfter(s) ==
    /\ ud_ws[s] = "after"
    /\ ud_ws' = [ud_ws EXCEPT ![s] = IF ud_shutdown[s] THEN "ended" ELSE "sleep"]
    /\ UNCHANGED <<ud_load, ud_streams, ud_nstreams, ud_tok, ud_cpc, ud_ckey, ud_csub,
                   ud_shutdown, ud_refresh, ud_pong, ud_retry, ud_key, ud_att, ud_last,
                   ud_delays, tradeVars, runnerVars, orderVars, feedVars, bridgeVars,
                   parserVars, clockVars>>

\* ws_loop: sleep(retry_delay); retry_delay = (retry_delay * 2).min(60)
WsSleep(s) ==
    /\ ud_ws[s] = "sleep"
    /\ ud_delays' = [ud_delays EXCEPT ![s] = Append(@, ud_retry[s])]
    /\ ud_retry' = [ud_retry EXCEPT ![s] = NextDelay(@)]
    /\ ud_ws' = [ud_ws EXCEPT ![s] = "getkey"]
    /\ UNCHANGED <<ud_load, ud_streams, ud_nstreams, ud_tok, ud_cpc, ud_ckey, ud_csub,
                   ud_shutdown, ud_refresh, ud_pong, ud_key, ud_att, ud_last,
                   tradeVars, runnerVars, orderVars, feedVars, bridgeVars, parserVars,
                   clockVars>>

\* ws_loop: if let Ok(new_key) = get_listen_key().await { listen_key = new_key }
WsGetKey(s) ==
    /\ ud_ws[s] = "getkey"
    /\ \/ /\ ud_tok < MaxTokens
          /\ ud_tok' = ud_tok + 1
          /\ ud_key' = [ud_key EXCEPT ![s] = ud_tok + 1]
       \/ UNCHANGED <<ud_tok, ud_key>>
    /\ ud_ws' = [ud_ws EXCEPT ![s] = "check"]
    /\ UNCHANGED <<ud_load, ud_streams, ud_nstreams, ud_cpc, ud_ckey, ud_csub,
                   ud_shutdown, ud_refresh, ud_pong, ud_retry, ud_att, ud_last,
                   ud_delays, tradeVars, runnerVars, orderVars, feedVars, bridgeVars,
                   parserVars, clockVars>>

\* refresh_loop: sleep(30 min); if shutdown.load() { break }
RefreshWake(s) ==
    /\ ud_refresh[s] = "sleep"
    /\ ud_refresh' = [ud_refresh EXCEPT ![s] = IF ud_shutdown[s] THEN "ended" ELSE "keepalive"]
    /\ UNCHANGED <<ud_load, ud_streams, ud_nstreams, ud_tok, ud_cpc, ud_ckey, ud_csub,
                   ud_shutdown, ud_ws, ud_pong, ud_retry, ud_key, ud_att, ud_last,
                   ud_delays, tradeVars, runnerVars, orderVars, feedVars, bridgeVars,
                   parserVars, clockVars>>

\* refresh_loop: keepalive_listen_key, whose outcome is only logged
RefreshKeepalive(s) ==
    /\ ud_refresh[s] = "keepalive"
    /\ ud_refresh' = [ud_refresh EXCEPT ![s] = "sleep"]
    /\ UNCHANGED <<ud_load, ud_streams, ud_nstreams, ud_tok, ud_cpc, ud_ckey, ud_csub,
                   ud_shutdown, ud_ws, ud_pong, ud_retry, ud_key, ud_att, ud_last,
                   ud_delays, tradeVars, runnerVars, orderVars, feedVars, bridgeVars,
                   parserVars, clockVars>>

\* pong task: sleep(30 s); if shutdown.load() { break }
PongWake(s) ==
    /\ ud_pong[s] = "sleep"
    /\ ud_pong' = [ud_pong EXCEPT ![s] = IF ud_shutdown[s] THEN "ended" ELSE "send"]
    /\ UNCHANGED <<ud_load, ud_streams, ud_nstreams, ud_tok, ud_cpc, ud_ckey, ud_csub,
                   ud_shutdown, ud_ws, ud_refresh, ud_retry, ud_key, ud_att, ud_last,
                   ud_delays, tradeVars, runnerVars, orderVars, feedVars, bridgeVars,
                   parserVars, clockVars>>

\* pong task: write.send(Message::Pong), break on Err
PongSend(s) ==
    /\ ud_pong[s] = "send"
    /\ \E ok \in BOOLEAN : ud_pong' = [ud_pong EXCEPT ![s] = IF ok THEN "sleep" ELSE "ended"]
    /\ UNCHANGED <<ud_load, ud_streams, ud_nstreams, ud_tok, ud_cpc, ud_ckey, ud_csub,
                   ud_shutdown, ud_ws, ud_refresh, ud_retry, ud_key, ud_att, ud_last,
                   ud_delays, tradeVars, runnerVars, orderVars, feedVars, bridgeVars,
                   parserVars, clockVars>>

UserInit ==
    /\ ud_streams = NoStream
    /\ ud_nstreams = 0
    /\ ud_tok = 0
    /\ ud_cpc = [c \in Connectors |-> "idle"]
    /\ ud_ckey = [c \in Connectors |-> NoToken]
    /\ ud_csub = [c \in Connectors |-> NoStream]
    /\ ud_shutdown = [s \in Streams |-> FALSE]
    /\ ud_ws = [s \in Streams |-> "none"]
    /\ ud_refresh = [s \in Streams |-> "none"]
    /\ ud_pong = [s \in Streams |-> "none"]
    /\ ud_retry = [s \in Streams |-> InitialDelay]
    /\ ud_key = [s \in Streams |-> NoToken]
    /\ ud_att = [s \in Streams |-> 0]
    /\ ud_last = [s \in Streams |-> NoToken]
    /\ ud_delays = [s \in Streams |-> <<>>]

connect == \E c \in Connectors : ConnectCheck(c) \/ ConnectGetKey(c) \/ ConnectSpawn(c)

ws_loop ==
    \E s \in Streams :
        \/ WsCheck(s)
        \/ WsConnectOk(s)
        \/ WsConnectErr(s)
        \/ WsDrop(s)
        \/ WsAfter(s)
        \/ WsSleep(s)
        \/ WsGetKey(s)

refresh_loop == \E s \in Streams : RefreshWake(s) \/ RefreshKeepalive(s)

pong_task == \E s \in Streams : PongWake(s) \/ PongSend(s)

UserNext == connect \/ Disconnect_stream \/ ws_loop \/ refresh_loop \/ pong_task
(***************************************************************************)
(* parse_account                                                           *)
(***************************************************************************)
\* the strings that parse as f64, with their values in hundredths
Numerals == {"1.50", "-0.25"}

Hundredths(s) == IF s = "1.50" THEN 150 ELSE -25

\* parse_f64: s.parse().unwrap_or(0.0)
parse_f64(s) == IF s \in Numerals THEN Hundredths(s) ELSE 0

\* copy_str: the first min(len, N) bytes of src
copy_str(src, N) == SubSeq(src, 1, Min2(Len(src), N))

\* map_reason
map_reason(r) ==
    CASE r = "DEPOSIT" -> 1
      [] r = "WITHDRAW" -> 2
      [] r = "ORDER" -> 3
      [] r = "FUNDING_FEE" -> 4
      [] r = "WITHDRAW_REJECT" -> 5
      [] r = "ADJUSTMENT" -> 6
      [] r = "INSURANCE_CLEAR" -> 7
      [] r = "ADMIN_DEPOSIT" -> 8
      [] r = "ADMIN_WITHDRAW" -> 9
      [] r = "MARGIN_TRANSFER" -> 10
      [] r = "MARGIN_TYPE_CHANGE" -> 11
      [] r = "ASSET_TRANSFER" -> 12
      [] r = "OPTIONS_PREMIUM_FEE" -> 13
      [] r = "OPTIONS_SETTLE_PROFIT" -> 14
      [] r = "AUTO_EXCHANGE" -> 15
      [] OTHER -> 0

\* the RawBalance items drawn: a short asset with numerals, and an asset of
\* nine bytes with strings that are no numbers
RawBalances ==
    {[asset |-> <<"U", "S", "D", "T">>, wallet_balance |-> "1.50",
      cross_wallet_balance |-> "1.50", balance_change |-> "-0.25"],
     [asset |-> <<"L", "O", "N", "G", "A", "S", "S", "E", "T">>, wallet_balance |-> "",
      cross_wallet_balance |-> "abc", balance_change |-> "1.50"]}

Reasons == {"ORDER", "FUNDING_FEE", "SOMETHING_NEW"}

\* the ACCOUNT_UPDATE frames drawn: those simd_json deserializes into
\* RawAccountEvent, with 0..MaxBalances balance items, and one it rejects
AccountFrames ==
    {[ok |-> TRUE, event_time |-> 1700, reason |-> r, balances |-> b] :
        r \in Reasons, b \in UNION {[1..n -> RawBalances] : n \in 0..MaxBalances}}
    \cup {[ok |-> FALSE, event_time |-> 0, reason |-> "", balances |-> <<>>]}

NoFrame == [ok |-> FALSE, event_time |-> -1, reason |-> "", balances |-> <<>>]

\* Option::None
None == [event_type |-> -1]

\* the zeroed CBalanceItem the array is filled with
ZeroBalance ==
    [asset |-> <<>>, asset_len |-> 0, wallet_balance |-> 0, cross_wallet_balance |-> 0,
     balance_change |-> 0]

\* the CBalanceItem written for src
CBalanceItem(src) ==
    [asset |-> copy_str(src.asset, AssetBytes),
     asset_len |-> Len(copy_str(src.asset, AssetBytes)),
     wallet_balance |-> parse_f64(src.wallet_balance),
     cross_wallet_balance |-> parse_f64(src.cross_wallet_balance),
     balance_change |-> parse_f64(src.balance_change)]

\* let count = raw.data.balances.len().min(10)
BalancesCountAll(balances) == Len(balances)

BalancesCount(balances) == Min2(Len(balances), BalanceSlots)

\* parse_account: None when the frame does not deserialize or has no balance
\* item; otherwise one CEvent of type 3 with the first count items converted
parse_account(frame) ==
    IF ~frame.ok THEN None
    ELSE IF frame.balances = <<>> THEN None
    ELSE LET count == BalancesCount(frame.balances) IN
         [event_type |-> 3,
          event_time |-> frame.event_time,
          reason_code |-> map_reason(frame.reason),
          balances_count |-> count,
          balances |-> [i \in 1..BalanceSlots |->
                          IF i <= count THEN CBalanceItem(frame.balances[i])
                          ELSE ZeroBalance]]

\* parse_account is called on a frame, once in a run
ParseAccount ==
    /\ pa_frame = NoFrame
    /\ \E frame \in AccountFrames :
          /\ pa_frame' = frame
          /\ pa_event' = parse_account(frame)
    /\ UNCHANGED <<tradeVars, runnerVars, orderVars, feedVars, bridgeVars, userVars,
                   clockVars>>

ParserInit ==
    /\ pa_frame = NoFrame
    /\ pa_event = None

ParserNext == ParseAccount

(***************************************************************************)
(* sync_time, set_time_offset and the start of the host                    *)
(***************************************************************************)
\* the bodies the /fapi/v1/time endpoint may answer with: one that is no
\* JSON, one without serverTime, and {"serverTime": st}
Bodies ==
    {[kind |-> "unparsable", st |-> 0], [kind |-> "missing", st |-> 0]}
        \cup {[kind |-> "time", st |-> now + s] : s \in Skews}

\* the local wall clock advances
Tick ==
    /\ ck_load = "boot"
    /\ now < MaxNow
    /\ now' = now + 1
    /\ UNCHANGED <<ck_load, time_offset_ms, ck_pc, ck_t0, ck_t1, ck_result, tradeVars,
                   runnerVars, orderVars, feedVars, bridgeVars, userVars, parserVars>>

\* let t0 = Utc::now().timestamp_millis(); client.get(...).send()
sync_time_request ==
    /\ ck_pc = "start"
    /\ ck_t0' = now
    /\ ck_pc' = "http"
    /\ UNCHANGED <<ck_load, time_offset_ms, now, ck_t1, ck_result, tradeVars,
                   runnerVars, orderVars, feedVars, bridgeVars, userVars, parserVars>>

\* .send().await: Err => return Err("HTTP request failed"); Ok => t1 = now.
\* t0 and t1 are locals of sync_time and are gone (0) once it has returned.
sync_time_http ==
    /\ ck_pc = "http"
    /\ \E ok \in BOOLEAN :
          IF ok
          THEN /\ ck_t1' = now
               /\ ck_pc' = "body"
               /\ UNCHANGED <<ck_result, ck_t0>>
          ELSE /\ ck_pc' = "err"
               /\ ck_result' = "err"
               /\ ck_t0' = 0
               /\ UNCHANGED ck_t1
    /\ UNCHANGED <<ck_load, time_offset_ms, now, tradeVars, runnerVars, orderVars,
                   feedVars, bridgeVars, userVars, parserVars>>

\* offset = server_time - (t0 + (t1 - t0) / 2)
sync_offset(server_time, t0, t1) == server_time - (t0 + ((t1 - t0) \div 2))

\* resp.json().await and json["serverTime"].as_i64(): an error returns Err;
\* otherwise time_offset_ms.store(offset) and Ok(offset)
sync_time_body ==
    /\ ck_pc = "body"
    /\ ck_t0' = 0
    /\ ck_t1' = 0
    /\ \E b \in Bodies :
          IF b.kind = "time"
          THEN /\ time_offset_ms' = sync_offset(b.st, ck_t0, ck_t1)
               /\ ck_pc' = "ok"
               /\ ck_result' = "ok"
          ELSE /\ ck_pc' = "err"
               /\ ck_result' = "err"
               /\ UNCHANGED time_offset_ms
    /\ UNCHANGED <<ck_load, now, tradeVars, runnerVars, orderVars, feedVars,
                   bridgeVars, userVars, parserVars>>

\* a set_time_offset that stores nothing
set_time_offset_ignored(cur, offset_ms) == cur

\* self.time_offset_ms.store(offset_ms, Ordering::Relaxed)
set_time_offset(cur, offset_ms) == offset_ms

\* main, Ok(offset): a log line, then init_trading
main_synced ==
    /\ ck_pc = "ok"
    /\ ck_pc' = "ready"
    /\ UNCHANGED <<ck_load, time_offset_ms, now, ck_t0, ck_t1, ck_result, tradeVars,
                   runnerVars, orderVars, feedVars, bridgeVars, userVars, parserVars>>

\* main, Err(e): trade_manager.set_time_offset(-1000), then init_trading
main_fallback ==
    /\ ck_pc = "err"
    /\ time_offset_ms' = set_time_offset(time_offset_ms, FallbackOffset)
    /\ ck_pc' = "ready"
    /\ UNCHANGED <<ck_load, now, ck_t0, ck_t1, ck_result, tradeVars, runnerVars,
                   orderVars, feedVars, bridgeVars, userVars, parserVars>>

ClockInit ==
    /\ time_offset_ms = InitialOffset
    /\ now = 0
    /\ ck_t0 = 0
    /\ ck_t1 = 0
    /\ ck_result = IF ck_load = "started" THEN "ok" ELSE "none"
    /\ ck_pc = IF ck_load = "started" THEN "ready" ELSE "start"

ClockNext ==
    \/ Tick
    \/ sync_time_request
    \/ sync_time_http
    \/ sync_time_body
    \/ main_synced
    \/ main_fallback
(***************************************************************************)
(* Specifications                                                          *)
(***************************************************************************)
TradeInit ==
    /\ id_counter = InitialCounter
    /\ pending = {}
    /\ inflight_ids = {}
    /\ is_connected = FALSE
    /\ out_q = <<>>
    /\ backlog = <<>>
    /\ wpc = "connect"
    /\ wcur = NoId
    /\ sweep_ids = {}
    /\ conn = 0
    /\ reader = [c \in Conns |-> "none"]
    /\ cpc = [c \in Callers |-> "idle"]
    /\ cid = [c \in Callers |-> NoId]
    /\ calls = [id \in Ids |-> <<>>]
    /\ wire = [id \in Ids |-> <<>>]
    /\ resp = [id \in Ids |-> 0]
    /\ backlogged = {}
    /\ down_submit = {}
    /\ snap_pending = {}
    /\ stamps = [id \in Ids |-> NoStamp]
    /\ unbuilt = {}

send_command ==
    \E c \in Callers :
        \/ send_command_build(c)
        \/ send_command_register(c)
        \/ send_command_enqueue(c)

run_socket ==
    \/ ConnectOk
    \/ ConnectErr
    \/ FlushWriteOk
    \/ FlushInsert
    \/ FlushWriteErr
    \/ FlushDone
    \/ ReaderFinished
    \/ ControlWrite
    \/ WriteOutOk
    \/ WriteOutInsert
    \/ WriteOutErr
    \/ Disconnect
    \/ fail_inflight_on_disconnect
    \/ SweepDone

reader_task ==
    \E c \in Conns :
        \/ handle_text(c)
        \/ ReaderEnd(c)

TradeNext == send_command \/ run_socket \/ reader_task

Components == TradeInit /\ RunnerInit /\ OrderInit /\ FeedInit /\ BridgeInit /\ UserInit
              /\ ParserInit /\ ClockInit

Started == workload = "start" /\ br_load = "single" /\ ud_load = "backoff"
               /\ ck_load = "started"

Init == Started /\ Components

SpecTrade == Init /\ [][TradeNext]_vars

\* the venue answers request id on a socket whose reader is running
Answer(id) ==
    /\ id \in pending
    /\ \E c \in Conns : handle_text(c) /\ resp'[id] # resp[id]

(***************************************************************************)
(* SpecTradeFair: every task of the runtime keeps being scheduled (weak    *)
(* fairness of the steps of the writer and of the callers), the socket     *)
(* eventually connects (ConnectOk) and a written request is eventually     *)
(* answered while the reader of its socket runs (Answer).  A failed write, *)
(* a failed connect and the end of a reader are never forced.  ConnectOk   *)
(* is disabled once MaxConn sockets have been opened.                      *)
(***************************************************************************)
TradeFairness ==
    /\ WF_vars(ConnectOk)
    /\ WF_vars(FlushWriteOk)
    /\ WF_vars(FlushInsert)
    /\ WF_vars(FlushDone)
    /\ WF_vars(ReaderFinished)
    /\ WF_vars(WriteOutOk)
    /\ WF_vars(WriteOutInsert)
    /\ WF_vars(Disconnect)
    /\ WF_vars(fail_inflight_on_disconnect)
    /\ WF_vars(SweepDone)
    /\ \A c \in Callers : WF_vars(send_command_register(c))
    /\ \A c \in Callers : WF_vars(send_command_enqueue(c))
    /\ \A id \in Ids : WF_vars(Answer(id))

SpecTradeFair == SpecTrade /\ TradeFairness

\* the supervisor under each of the workloads
RunnerInitial ==
    workload \in Workloads /\ br_load = "single" /\ ud_load = "backoff"
        /\ ck_load = "started"
        /\ Components

SpecRunner == RunnerInitial /\ [][RunnerNext]_vars

(***************************************************************************)
(* SpecRunnerFair: the task that runs stop keeps being scheduled and its   *)
(* 100 ms sleeps end.                                                      *)
(***************************************************************************)
RunnerFairness ==
    \A t \in Stoppers : WF_vars(StopPoll(t)) /\ WF_vars(StopForce(t))

SpecRunnerFair == SpecRunner /\ RunnerFairness

SpecOrder == Init /\ [][OrderNext]_vars

SpecFeed == Init /\ [][FeedNext]_vars

\* the reader ends once the write side of its socket has failed
FeedReaderEndAfterWriteFailure == fd_pc = "join" /\ FeedReaderEnd

(***************************************************************************)
(* SpecFeedFair: the run_socket task keeps being scheduled (a received     *)
(* command is written, reader.await returns once the reader has ended,     *)
(* the 3 s sleep ends) and the reader of a socket whose write side failed  *)
(* ends.  Nothing forces a command to be submitted.                        *)
(***************************************************************************)
FeedFairness ==
    /\ WF_vars(FeedWriteOk \/ FeedWriteErr)
    /\ WF_vars(FeedJoin)
    /\ WF_vars(FeedSleepDone)
    /\ WF_vars(FeedReaderEndAfterWriteFailure)

SpecFeedFair == SpecFeed /\ FeedFairness

\* the bridges under each of the loads
BridgeInitial ==
    workload = "start" /\ br_load \in Loads /\ ud_load = "backoff"
        /\ ck_load = "started"
        /\ Components

SpecBridge == BridgeInitial /\ [][BridgeNext]_vars

(***************************************************************************)
(* SpecBridgeFair: every bridge task keeps being scheduled and its 100 ms  *)
(* timeout ends.  Nothing forces an event to be published, the flag to be  *)
(* set or the bus to be closed.  One instance goes through its whole life. *)
(***************************************************************************)
BridgeFairness == \A i \in Bridges : WF_vars(BridgeLoopStep(i))

SpecBridgeFair == Init /\ [][BridgeNext]_vars /\ BridgeFairness

\* the user feed under each of the loads
UserInitial ==
    workload = "start" /\ br_load = "single" /\ ud_load \in UserLoads
        /\ ck_load = "started"
        /\ Components

SpecUser == UserInitial /\ [][UserNext]_vars

SpecParser == Init /\ [][ParserNext]_vars

\* the host from its start: main, the wall clock and the trading socket
ClockInitial ==
    workload = "start" /\ br_load = "single" /\ ud_load = "backoff"
        /\ ck_load = "boot"
        /\ Components

SpecClock == ClockInitial /\ [][ClockNext \/ TradeNext]_vars

(***************************************************************************)
(* Properties of the TradeGate                                             *)
(***************************************************************************)
\* C1: the callback of a request id is invoked at most once: every
\* invocation removes the pending entry, an id whose callback has run has no
\* entry, and once it has run no later response or sweep invokes it again or
\* changes what it was given.
C1_CallbackAtMostOnce ==
    /\ [](\A id \in Ids : Len(calls[id]) <= 1 /\ (calls[id] # <<>> => id \notin pending))
    /\ [][\A id \in Ids :
            ((calls[id] # <<>> => calls'[id] = calls[id])
             /\ (calls'[id] # calls[id] => (id \in pending /\ id \notin pending')))]_vars

\* a duplicate response was processed for an id whose callback ran once
C1_Witness == \E id \in Ids : resp[id] = MaxResp /\ Len(calls[id]) = 1

\* C2: every request that has a pending entry eventually has its callback
\* invoked, exactly once, whether it is written at once, after a failed
\* write or after having been enqueued while the socket was down, unless
\* the socket is down and never connects again (which in the model is the
\* writer waiting to connect with all MaxConn sockets used up).
C2_EventuallyExactlyOnce ==
    \A id \in Ids :
        (id \in pending) ~>
            \/ Len(calls[id]) = 1 /\ id \notin pending
            \/ wpc = "connect" /\ conn = MaxConn

\* a request whose write had failed and that was submitted while the socket
\* was down has had its callback invoked once
C2_Witness ==
    /\ \E id \in backlogged : Len(calls[id]) = 1
    /\ \E id \in down_submit : Len(calls[id]) = 1

\* C3 as stated: when the sweep has finished, every id that was inflight
\* with a pending entry at the disconnect has had its callback invoked
\* exactly once with the Disconnected payload carrying its id, and the
\* inflight set is empty.
C3_SweepDeliversDisconnected ==
    (wpc = "connect") =>
        /\ inflight_ids = {}
        /\ \A id \in snap_pending : calls[id] = <<DisconnectedPayload(id)>>

\* C3 amended: when the sweep has finished, every such id has had its
\* callback invoked exactly once with a payload carrying its id, which is the
\* Disconnected payload unless a reader processed a response for the id, and
\* the inflight set is empty.
C3_SweepDeliversOnce ==
    (wpc = "connect") =>
        /\ inflight_ids = {}
        /\ \A id \in snap_pending :
              /\ Len(calls[id]) = 1
              /\ calls[id][1].id = id
              /\ calls[id][1] = DisconnectedPayload(id) \/ resp[id] > 0

\* a sweep has finished that delivered the Disconnected payload
C3_Witness ==
    /\ wpc = "connect"
    /\ \E id \in snap_pending : calls[id] = <<DisconnectedPayload(id)>>

\* C4: an id is in the inflight set only if a socket write of its payload
\* has returned Ok.
C4_InflightOnlyAfterWrite == \A id \in inflight_ids : wire[id] # <<>>

\* one write has failed (its payload waits in the backlog) while another id
\* is inflight
C4_Witness == backlog # <<>> /\ inflight_ids # {}

\* C5: no payload in the backlog was written successfully, and no payload is
\* written successfully twice.
C5_BacklogNeverObserved ==
    /\ \A id \in Range(backlog) : wire[id] = <<>>
    /\ \A id \in Ids : Len(wire[id]) <= 1

\* a payload whose write had failed was flushed from the backlog
C5_Witness == \E id \in backlogged : Len(wire[id]) = 1 /\ id \notin Range(backlog)

\* C6: every id on the outbound queue, in the backlog or written to a socket
\* has a pending entry or has had its callback invoked.
C6_RegisteredBeforeQueued ==
    \A id \in Range(out_q) \cup Range(backlog) \cup {i \in Ids : wire[i] # <<>>} :
        id \in pending \/ calls[id] # <<>>

\* the outbound queue and the backlog both hold a payload
C6_Witness == out_q # <<>> /\ backlog # <<>>

\* C7: a payload is taken from the outbound queue only when the backlog is
\* empty, and no id of the backlog is in the inflight set.
C7_BacklogFlushedFirst ==
    /\ [][Len(out_q') < Len(out_q) => backlog = <<>>]_vars
    /\ [](Range(backlog) \cap inflight_ids = {})

\* after a reconnect a backlog payload was written to the new socket and
\* then a payload was taken from the outbound queue
C7_Witness ==
    /\ wpc = "norm_ins"
    /\ \E id \in backlogged : wire[id] = <<conn>> /\ id # wcur

\* C8: while the writer disconnects and sweeps, the backlog does not change,
\* no pending entry of a backlog id is removed and no callback of a backlog
\* id is invoked; a backlog id never receives the Disconnected payload.
C8_SweepKeepsBacklog ==
    /\ [][(wpc \in {"disc", "sweep"}) =>
            (backlog' = backlog
             /\ (\A id \in Range(backlog) :
                    ((id \in pending => id \in pending')
                     /\ calls'[id] = calls[id])))]_vars
    /\ [](\A id \in Range(backlog) : id \in pending /\ calls[id] = <<>>)

\* a sweep that removed an entry has finished and the backlog holds a payload
C8_Witness ==
    /\ wpc = "connect"
    /\ backlog # <<>>
    /\ \E id \in snap_pending : calls[id] = <<DisconnectedPayload(id)>>

\* C9 as stated: a request submitted while the socket is down is in the
\* backlog (and not inflight) until it is written.
C9_DownSubmitInBacklog ==
    \A id \in down_submit :
        wire[id] = <<>> => id \in Range(backlog) /\ id \notin inflight_ids

\* C9 amended: a request submitted while the socket is down waits on the
\* outbound queue (in the backlog only after a failed write of it) and is
\* not inflight until it is written; it is written only when the backlog is
\* empty or it is the backlog's front; a response with result.orderId
\* gives its callback success = true with that order id.
C9_DownSubmitQueued ==
    /\ [](\A id \in down_submit :
            /\ wire[id] = <<>> =>
                  /\ id \in Range(out_q) \cup Range(backlog)
                  /\ id \notin inflight_ids
                  /\ calls[id] = <<>>
            /\ calls[id] = <<VenueResult(id)>> =>
                  handle_resp(calls[id][1]) =
                      [success |-> TRUE, order_id |-> 42, error_code |-> 0])
    /\ [][\A id \in down_submit :
            (wire[id] = <<>> /\ wire'[id] # <<>>) =>
                (backlog = <<>> \/ Head(backlog) = id)]_vars

\* a request submitted while the socket was down was written after the
\* reconnect and its callback was given the venue's result
C9_Witness ==
    \E id \in down_submit : wire[id] # <<>> /\ calls[id] = <<VenueResult(id)>>

(***************************************************************************)
(* Properties of the PluginSupervisor                                      *)
(***************************************************************************)
\* C10: for every instance id at most one worker and at most one bridge
\* created for that id are running.
C10_UniqueLiveInstance ==
    \A id \in InstanceIds :
        /\ Cardinality({k \in Incs : inst_id[k] = id /\ worker[k] = "running"}) <= 1
        /\ Cardinality({k \in Incs : inst_id[k] = id /\ BridgeRunning(k)}) <= 1

\* C11 (as stated): for every start that returned Ok, list() contains the
\* instance id strategy_id:SYMBOL from that return until a stop for that id
\* has completed.
C11_ListedUntilStop ==
    \A id \in started : id \in list

\* C11 (amended): for every start that returned Ok, list() contains the
\* instance id from that return until a stop for that id has completed or
\* cleanup_loop has removed the entry.
C11_ListedUntilStopOrCleanup ==
    \A id \in started : id \in list \/ id \in reaped

\* start returned Ok, a stop of the instance is polling, the id is still listed
C11_Witness ==
    \E id \in started \cap list, t \in Stoppers : tpc[t] = "poll" /\ targ[t] = id

\* C12: once stop(instance_id) has returned Ok, no bridge of an instance that
\* was registered under that id puts a further event into its sync queue.
C12_NoEventAfterStop ==
    [][\A k \in stop_done : sync_q'[k] <= sync_q[k]]_vars

\* C13: while a worker executes the plugin's run, its Library has an owner;
\* the Library is released only after run has returned, also after a forced
\* removal from the registry and after cleanup.
C13_LibraryOutlivesRun ==
    \A k \in Incs : worker[k] = "running" => lib[k] # {}

\* the worker still runs after its instance was removed and dropped; only the
\* worker's clone keeps the Library
C13_Witness ==
    \E k \in Incs :
        /\ worker[k] = "running"
        /\ lib[k] = {"worker"}
        /\ instances[inst_id[k]] = NoInst

\* C14: stop on a registered instance sets the stop flag, sleeps again only
\* while the id is registered, polls at most StopPolls times, returns Ok with
\* the id absent from the registry, and always returns.
C14_StopTerminates ==
    /\ [](\A t \in Stoppers : tpoll[t] <= StopPolls)
    /\ [][\A t \in Stoppers :
            /\ (tpc[t] # "poll" /\ tpc'[t] = "poll")
                  => (tk'[t] = instances[targ'[t]] /\ stop_flag'[tk'[t]])
            /\ (tpc[t] = "poll" /\ tpoll'[t] > tpoll[t])
                  => instances[targ[t]] # NoInst
            /\ (tpc[t] = "poll" /\ tpc'[t] # "poll")
                  => instances'[targ[t]] = NoInst]_vars
    /\ \A t \in Stoppers : (tpc[t] = "poll") ~> (tpc[t] # "poll")

\* stop has returned Ok for an instance whose worker never returned
C14_Witness ==
    \E k \in stop_done : worker[k] = "running" /\ instances[inst_id[k]] = NoInst

\* C15: of two stop calls running in parallel on one instance, the one that is
\* still running when the other has returned is a no-op: its return leaves
\* the registry as it is.
C15_SecondStopNoOp ==
    [][\A t \in Stoppers :
          (tpc[t] = "poll" /\ tpc'[t] # "poll" /\ tk[t] \in stop_done)
             => instances' = instances]_vars

\* stop_all(strategy_id) by caller t: to_stop is exactly the registered ids of
\* that strategy, a stop is issued only for an id of to_stop, and the call
\* returns only after a stop has been issued for each of them
StopAllIssuesMatching(t) ==
    /\ (tpc[t] = "idle" /\ tpc'[t] = "all")
          => to_stop'[t] = {id \in list : id[1] = tsid'[t]}
    /\ (tpc[t] = "all" /\ ttodo'[t] # ttodo[t])
          => (ttodo'[t] \subseteq ttodo[t] /\ ttodo[t] \subseteq to_stop[t])
    /\ (tpc[t] = "all" /\ tpc'[t] = "poll")
          => (targ'[t] \in ttodo[t] \ ttodo'[t])
    /\ (tpc[t] = "all" /\ tpc'[t] = "idle")
          => ttodo[t] = {}

C17_LoadFailureLeavesNothing ==
    [][\A p \in Starters :
          (spc[p] = "idle" /\ spc'[p] = "failed" /\ sres'[p] = "load")
             => UNCHANGED <<instances, ninc, inst_id, worker, bridge, stop_flag,
                            lib, sync_q>>]_vars

\* a start failed on the load while another start of the same id got through
C17_Witness ==
    \E p \in Starters :
        /\ spc[p] = "failed"
        /\ sres[p] = "load"
        /\ sarg[p] \in list

(***************************************************************************)
(* Properties of the order callbacks                                       *)
(***************************************************************************)
\* the response has an error member whose code is an integer
HasErrorCode(v) == v.etag = "int"

\* C18: the OrderResult of a place callback is success=true, order_id=N,
\* error_code=0 for a response with result.orderId=N (and no error),
\* success=false, order_id=-1, error_code=C for a response with error.code=C,
\* success=false, error_code=-9998 for a response with neither, and
\* success=false, order_id=-1 for the Disconnected payload.
C18_PlaceResultNormalized ==
    place_result # NoResult =>
        /\ (payload.etag = "none" /\ payload.hasOid)
              => place_result = [success |-> TRUE, order_id |-> payload.oid, error_code |-> 0]
        /\ HasErrorCode(payload)
              => place_result = [success |-> FALSE, order_id |-> -1, error_code |-> payload.ecode]
        /\ (payload.etag = "none" /\ ~payload.hasOid)
              => (~place_result.success /\ place_result.error_code = -9998)
        /\ (payload = DisconnectedPayload(payload.id))
              => (~place_result.success /\ place_result.order_id = -1)

\* the place callback was called with the Disconnected payload
C18_Witness ==
    /\ payload = DisconnectedPayload(payload.id)
    /\ place_result = [success |-> FALSE, order_id |-> -1, error_code |-> -1]

\* C19: the OrderResult of a cancel callback is success=false with
\* error_code=C for a response with error.code=C, and success=false,
\* error_code=-9998 for a response with neither result.orderId nor error.
C19_CancelResultNormalized ==
    cancel_result # NoResult =>
        /\ HasErrorCode(payload)
              => (~cancel_result.success /\ cancel_result.error_code = payload.ecode)
        /\ (payload.etag = "none" /\ ~payload.hasOid)
              => (~cancel_result.success /\ cancel_result.error_code = -9998)

(***************************************************************************)
(* Properties of the MarketFeed                                            *)
(***************************************************************************)
\* the numbers of the frames of socket c that handle_text parsed, in order of receipt
ParsedFrames(c) ==
    LET s == SelectSeq(fd_frames,
                       LAMBDA f : f.sock = c /\ f.tag \in {"bookTicker", "trade"} /\ f.ok)
    IN  [i \in 1..Len(s) |-> <<s[i].n, IF s[i].tag = "bookTicker" THEN 0 ELSE 1>>]

\* the events of socket c on the bus, in order
PublishedEvents(c) ==
    LET s == SelectSeq(fd_bus, LAMBDA e : e.sock = c)
    IN  [i \in 1..Len(s) |-> <<s[i].n, s[i].event_type>>]

\* C20: the events published from one socket are the successfully parsed
\* bookTicker/trade frames of that socket in receipt order, each once.
C20_PublishedInReceiptOrder ==
    \A c \in FeedConns : PublishedEvents(c) = ParsedFrames(c)

\* two parsed frames and an unparsed one were received and both sockets have published
C20_Witness ==
    /\ Len(fd_bus) >= 2
    /\ Len(fd_frames) > Len(fd_bus)
    /\ \E i, j \in 1..Len(fd_bus) : fd_bus[i].sock # fd_bus[j].sock

\* the connection has failed: the reader ended (server close, read error or
\* end of stream) or a write failed
FeedFailed == fd_reader = "done" \/ fd_pc = "join"

\* C21: after any failure of the MarketFeed connection, "connected" is
\* eventually cleared and a new connect attempt starts, whether or not a
\* further command is submitted.
C21_ReconnectsAfterFailure ==
    FeedFailed ~> (fd_pc = "connect" /\ fd_connected = FALSE)

\* C22: a second consecutive read timeout with no frame in between ends the
\* reader (the connection is dropped).
C22_SecondTimeoutDropsConnection ==
    fd_idle >= 2 => fd_reader # "running"

\* the positions of fd_wire that hold a subscribe/unsubscribe command
Submitted(w) == {i \in 1..Len(w) : w[i][1].kind # "LIST_SUBSCRIPTIONS"}

\* C23: of two subscribe/unsubscribe commands written to the socket, the one
\* submitted first is written first, also when they go to different sockets.
C23_WrittenInSubmissionOrder ==
    \A i, j \in Submitted(fd_wire) : i < j => fd_wire[i][1].n < fd_wire[j][1].n

\* two submitted commands were written, to different sockets, with a keepalive between them
C23_Witness ==
    \E i, j \in Submitted(fd_wire) :
        /\ i + 1 < j
        /\ fd_wire[i][2] # fd_wire[j][2]

\* the bridge of instance i handles an event while its sync queue is full
DropsOnFull(i) ==
    /\ BridgeLoopEvent(i)
    /\ Len(br_q[i]) >= SyncCap

\* C24: the bridge never blocks on the sync queue: with a full queue it takes
\* the event from the bus and drops it for that instance only, dropped counts
\* the dropped events one by one, the warning is logged exactly at the
\* multiples of WarnEvery, and the queue never holds more than SyncCap events.
C24_DropWhenFull ==
    /\ [](\A i \in Bridges :
            /\ Len(br_q[i]) <= SyncCap
            /\ br_dropped[i] = br_taken[i] - Len(br_enq[i])
            /\ br_warned[i] = {d \in 1..br_dropped[i] : d % WarnEvery = 0})
    /\ [][\A i \in Bridges :
            DropsOnFull(i) =>
                /\ br_sub'[i] = Tail(br_sub[i])
                /\ br_dropped'[i] = br_dropped[i] + 1
                /\ \A j \in Bridges :
                      /\ br_q'[j] = br_q[j]
                      /\ j # i => (br_dropped'[j] = br_dropped[j] /\ br_sub'[j] = br_sub[j])]_vars

\* a bridge dropped 2 * WarnEvery events on a full queue and logged two warnings
\* while the other bridge dropped none of the events it received
C24_Witness ==
    \E i, j \in Bridges :
        /\ br_dropped[i] = 2 * WarnEvery
        /\ Cardinality(br_warned[i]) = 2
        /\ br_worker[i] = "running"
        /\ Len(br_q[i]) = SyncCap
        /\ j # i /\ br_dropped[j] = 0 /\ br_taken[j] >= 2

\* C25: what a bridge enqueues is an order-preserving subsequence of the
\* events delivered on its subscription: numbers strictly increasing, each
\* one published after the subscription.
C25_EnqueuedInBusOrder ==
    \A i \in Bridges :
        /\ \A k \in 1..Len(br_enq[i]) :
              /\ br_enq[i][k].src = "market"
              /\ br_enq[i][k].n \in (br_from[i] + 1)..br_sent
        /\ \A k, l \in 1..Len(br_enq[i]) : k < l => br_enq[i][k].n < br_enq[i][l].n

\* a bridge enqueued two events after a queue-full drop and after a receiver lag
C25_Witness ==
    \E i \in Bridges :
        /\ Len(br_enq[i]) >= 2
        /\ br_dropped[i] >= 1
        /\ br_taken[i] < br_sent - br_from[i]
        /\ br_enq[i][Len(br_enq[i])].n = br_sent

\* C26: with a user feed attached, every event forwarded to the instance, user
\* data included, lands on the sync queue: no user-data event reaches the
\* plugin on another channel.
C26_SingleMergedQueue ==
    \A i \in Bridges :
        \A k \in 1..Len(br_user_rx[i]) :
            \E l \in 1..Len(br_enq[i]) : br_enq[i][l] = br_user_rx[i][k]

RECURSIVE Pow2(_)
Pow2(k) == IF k = 0 THEN 1 ELSE 2 * Pow2(k - 1)

\* C27: the reconnect delay starts at 1 s, doubles after each consecutive
\* failed attempt up to the cap of 60 s, stays within [1, 60], and a successful
\* connect makes the next delay 1 s again: the k-th delay slept since the last
\* successful connect is min(2^(k-1), 60).
C27_BackoffDoublesToCap ==
    \A s \in Streams :
        /\ ud_retry[s] \in InitialDelay..MaxDelay
        /\ \A k \in 1..Len(ud_delays[s]) : ud_delays[s][k] = Min2(Pow2(k - 1), MaxDelay)

\* a socket loop slept 60 s twice in a row, after an earlier successful
\* connect had reset the delay
C27_Witness ==
    \E s \in Streams :
        /\ Len(ud_delays[s]) >= 2
        /\ ud_delays[s][Len(ud_delays[s])] = MaxDelay
        /\ ud_delays[s][Len(ud_delays[s]) - 1] = MaxDelay
        /\ ud_last[s] # NoToken

\* C28: after a socket dropped, the next connect attempt does not use the
\* session token of the dropped connection: a fresh one was acquired.
C28_FreshTokenBeforeReconnect ==
    \A s \in Streams : ud_ws[s] = "connect" => ud_key[s] # ud_last[s]

\* a task of stream s is running
StreamLive(s) == TaskRuns(ud_ws[s]) \/ TaskRuns(ud_refresh[s]) \/ TaskRuns(ud_pong[s])

\* C29: at most one stream of the credential has running tasks, also when
\* connect is called concurrently.
C29_OneLiveStream ==
    Cardinality({s \in Streams : StreamLive(s)}) <= 1

\* C30: for an ACCOUNT_UPDATE frame that deserializes with n balance items,
\* parse_account returns nothing when n = 0 and otherwise one AccountUpdate
\* with balances_count = min(n, 10) whose first min(n, 10) slots are the
\* first items of the frame in order; further items are left out.
C30_BalancesTruncated ==
    LET n == Len(pa_frame.balances) IN
    pa_frame.ok =>
        IF n = 0 THEN pa_event = None
        ELSE /\ pa_event.event_type = 3
             /\ pa_event.balances_count = Min2(n, BalanceSlots)
             /\ Len(pa_event.balances) = BalanceSlots
             /\ \A i \in 1..BalanceSlots :
                   pa_event.balances[i] =
                       IF i <= n THEN CBalanceItem(pa_frame.balances[i]) ELSE ZeroBalance

\* a frame with more than 10 items of both kinds was parsed into an event
C30_Witness ==
    /\ pa_frame.ok
    /\ Len(pa_frame.balances) > BalanceSlots
    /\ pa_event.event_type = 3
    /\ pa_frame.balances[1] # pa_frame.balances[2]
    /\ pa_frame.balances[BalanceSlots] # pa_frame.balances[BalanceSlots + 1]

\* the payload built for id carries timestamp = local wall time + offset
StampedWith(id, offset) ==
    stamps[id] # NoStamp => stamps[id].ts = stamps[id].local + offset

\* C31: connect, disconnect, sweep and reconnect of the trading socket (every
\* step of send_command, run_socket and the readers) leave the clock offset
\* unchanged, only a successful sync_time or set_time_offset changes it, and
\* every payload built after main has set the offset carries
\* timestamp = local wall time + that offset.
C31_OffsetStableAcrossChurn ==
    /\ [](ck_pc = "ready" => \A id \in Ids : StampedWith(id, time_offset_ms))
    /\ [][(TradeNext => time_offset_ms' = time_offset_ms)
            /\ (time_offset_ms' # time_offset_ms => sync_time_body \/ main_fallback)]_vars

\* the venue's clock was found 5 s behind, the socket was opened twice, an
\* inflight request was failed by the sweep, and two payloads were built at
\* different local times
C31_Witness ==
    /\ ck_result = "ok"
    /\ time_offset_ms = -5000
    /\ conn = MaxConn
    /\ \E id \in Ids : DisconnectedPayload(id) \in Range(calls[id])
    /\ \A id \in Ids : stamps[id] # NoStamp
    /\ stamps[1].local # stamps[2].local

\* C32: a sync_time that fails (HTTP error, unparsable body, missing
\* serverTime) returns without having modified the offset, main then installs
\* the fallback, and every payload built afterwards carries the offset -1000.
C32_FallbackAfterFailedSync ==
    /\ [](ck_pc = "err" => time_offset_ms = InitialOffset)
    /\ [](ck_result = "err" /\ ck_pc = "ready" =>
             /\ time_offset_ms = FallbackOffset
             /\ \A id \in Ids : StampedWith(id, FallbackOffset))
    /\ [][ck_pc' = "err" => time_offset_ms' = time_offset_ms]_vars

\* sync_time failed on the body of the answer, and a payload was built later
\* on the second socket
C32_Witness ==
    /\ ck_result = "err"
    /\ ck_pc = "ready"
    /\ conn = MaxConn
    /\ \E id \in Ids : stamps[id] # NoStamp /\ stamps[id].local > 0

\* C33: the instance cleanup_loop takes out of the registry is one whose
\* worker has finished.
C33_CleanupRemovesOnlyFinished ==
    [][(kpc = "remove" /\ kpc' = "join") => worker[kjoin'] = "finished"]_vars

\* the bridge task of instance i is running
BridgeTaskRuns(i) == br_pc[i] \in {"check", "recv"}

\* C34: once the stop flag of an instance is set or the bus is closed, the
\* bridge task of the instance terminates, whether or not a further event is
\* published.
C34_BridgeTerminates ==
    \A i \in Bridges :
        (BridgeTaskRuns(i) /\ (br_flag[i] \/ ~br_open)) ~> ~BridgeTaskRuns(i)

\* a bridge ended on the flag set by stop, with the bus open, the worker
\* running and no event published since the bridge was spawned
C34_Witness ==
    \E i \in Bridges :
        /\ br_pc[i] = "stopped"
        /\ br_flag[i]
        /\ br_open
        /\ br_worker[i] = "running"
        /\ br_sent = br_from[i]

\* the reader has just received frame f
Received(f) == fd_frames' = Append(fd_frames, f)

\* frame f carries a tag handle_text looks for and does not parse
Malformed(f) == f.tag \in {"bookTicker", "trade"} /\ ~f.ok

C36_WrittenInIdOrder ==
    [][\A id \in Ids :
          wire'[id] # wire[id] => \A j \in Ids : j > id => wire[j] = <<>>]_vars

\* C37: every id in the inflight set has a pending callback entry.
C37_InflightHasPending ==
    inflight_ids \subseteq pending

\* C38: the instance that the forced removal at the end of stop takes out of
\* the registry has its stop flag set, also when start is never called
\* concurrently with another start.
C38_ForcedRemovalOnlyFlagged ==
    [][\A t \in Stoppers :
          (workload = "stop" /\ tpc[t] = "poll" /\ tpoll[t] = StopPolls
              /\ tpc'[t] # "poll" /\ instances[targ[t]] # NoInst)
             => stop_flag[instances[targ[t]]]]_vars

\* C39: an id whose payload construction failed has no pending entry, is on
\* neither the outbound queue nor the backlog, is not inflight, and its
\* callback is not invoked; the failing call changes the id counter only.
C39_BuildFailureLeavesNoTrace ==
    /\ [](\A id \in unbuilt :
             /\ id \notin pending
             /\ id \notin Range(out_q)
             /\ id \notin Range(backlog)
             /\ id \notin inflight_ids
             /\ calls[id] = <<>>
             /\ wire[id] = <<>>)
    /\ [][unbuilt' # unbuilt =>
             /\ id_counter' = id_counter + 1
             /\ <<pending, out_q, backlog, inflight_ids, calls>>'
                   = <<pending, out_q, backlog, inflight_ids, calls>>]_vars

\* the payload of request 1 could not be built, request 2 went through the
\* socket and was answered, and the socket was opened a second time
C39_Witness ==
    /\ 1 \in unbuilt
    /\ calls[2] # <<>>
    /\ conn = MaxConn
    /\ cpc = [c \in Callers |-> "idle"]

\* C40: the backlog never holds more than one payload; it grows only by a
\* failed write of a payload taken from the outbound queue, which ends the
\* connection phase; and the writer is in its select loop, where it takes
\* payloads from the outbound queue, only with an empty backlog.
C40_BacklogAtMostOne ==
    /\ [](Len(backlog) <= 1)
    /\ [](wpc \in {"normal", "norm_ins"} => backlog = <<>>)
    /\ [][Len(backlog') > Len(backlog) =>
             (wpc = "normal" /\ wpc' = "disc" /\ out_q # <<>>
              /\ out_q' = Tail(out_q) /\ backlog' = <<Head(out_q)>>)]_vars

\* a payload whose write failed on the first socket went through the
\* backlog, and the second socket has written it and the other payload
C40_Witness ==
    /\ backlogged # {}
    /\ backlog = <<>>
    /\ wpc = "normal"
    /\ \A id \in Ids : wire[id] = <<MaxConn>>

====
